---- MODULE Spec2Model ----
(***************************************************************************)
(* A model of the SkSL function-call inliner (src/sksl/SkSLInliner.cpp).   *)
(*                                                                         *)
(* The IR is a tree.  Every node is a record [k, c, a]: k is the node kind *)
(* (Statement::Kind / Expression::Kind), c the sequence of owned children  *)
(* (the unique_ptr members, in declaration order; an empty unique_ptr is   *)
(* NullNode) and a the remaining fields.  A slot, a pointer to a           *)
(* unique_ptr, is the path of child indices that leads to it from a        *)
(* function body.                                                          *)
(* Names are sequences of characters, so that String::printf and           *)
(* String::startsWith are computed and not assumed.                        *)
(***************************************************************************)
EXTENDS Integers, Sequences, FiniteSets, TLC

VARIABLES
    program,            \* Program: the sequence of program elements
    programBefore,      \* the program as the last analyze() found it
    symbols,            \* the SymbolTable objects, by table id
    fSettings,          \* Inliner::fSettings (valid = FALSE before reset)
    fInlineVarCounter,  \* Inliner::fInlineVarCounter
    passes,             \* number of analyze() calls made so far
    madeChanges,        \* result of the last analyze(): "none", "true", "false"
    candidates,         \* fInlineCandidates of the last analyze()
    inlinableMap,       \* inlinableMap of the last analyze()
    rewrites,           \* the calls replaced by the last analyze(), in order
    history             \* one record for every analyze() made so far, in order

vars == <<program, programBefore, symbols, fSettings, fInlineVarCounter, passes, madeChanges,
          candidates, inlinableMap, rewrites, history>>

(***************************************************************************)
(* Bounds of the model.                                                    *)
(***************************************************************************)
MaxPasses == 5

(***************************************************************************)
(* Program constants.                                                      *)
(***************************************************************************)
INT_MAX == 2147483647

(***************************************************************************)
(* IR nodes.                                                               *)
(***************************************************************************)
NullNode == [k |-> "Null", c |-> <<>>, a |-> [null |-> TRUE]]

StatementKinds ==
    {"Block", "Break", "Continue", "Discard", "Do", "Expression", "For", "If",
     "InlineMarker", "Nop", "Return", "Switch", "SwitchCase", "VarDeclaration",
     "VarDeclarations", "While"}

ExpressionKinds ==
    {"Binary", "BoolLiteral", "Constructor", "ExternalFunctionCall",
     "ExternalValue", "FieldAccess", "FloatLiteral", "FunctionCall",
     "FunctionReference", "Index", "IntLiteral", "NullLiteral", "Postfix",
     "Prefix", "Setting", "Swizzle", "Ternary", "TypeReference",
     "VariableReference"}

BreakableKinds == {"Switch", "While", "Do", "For"}

IsNull(n) == n.k = "Null"
IsStatement(n) == n.k \in StatementKinds
IsExpression(n) == n.k \in ExpressionKinds

\* A Variable is identified by the symbol table that owns it and its name.
Var(table, name) == [table |-> table, name |-> name]

BoolLiteral(v) == [k |-> "BoolLiteral", c |-> <<>>, a |-> [bvalue |-> v, type |-> "bool"]]
IntLiteral(v) == [k |-> "IntLiteral", c |-> <<>>, a |-> [ivalue |-> v, type |-> "int"]]
VariableReference(v, type, refKind) ==
    [k |-> "VariableReference", c |-> <<>>,
     a |-> [fVariable |-> v, fRefKind |-> refKind, type |-> type]]
BinaryExpression(l, op, r, type) ==
    [k |-> "Binary", c |-> <<l, r>>, a |-> [fOperator |-> op, type |-> type]]
TernaryExpression(t, x, y, type) ==
    [k |-> "Ternary", c |-> <<t, x, y>>, a |-> [type |-> type]]
FunctionCall(fn, args, type) ==
    [k |-> "FunctionCall", c |-> args, a |-> [fFunction |-> fn, type |-> type]]
FieldAccess(base, idx, type) ==
    [k |-> "FieldAccess", c |-> <<base>>, a |-> [fFieldIndex |-> idx, type |-> type]]
PrefixExpression(op, e, type) ==
    [k |-> "Prefix", c |-> <<e>>, a |-> [fOperator |-> op, type |-> type]]

Block(stmts, syms, scope) ==
    [k |-> "Block", c |-> stmts, a |-> [fSymbols |-> syms, fIsScope |-> scope]]
ExpressionStatement(e) == [k |-> "Expression", c |-> <<e>>, a |-> [stmt |-> TRUE]]
ReturnStatement(e) == [k |-> "Return", c |-> <<e>>, a |-> [stmt |-> TRUE]]
BreakStatement == [k |-> "Break", c |-> <<>>, a |-> [stmt |-> TRUE]]
ContinueStatement == [k |-> "Continue", c |-> <<>>, a |-> [stmt |-> TRUE]]
Nop == [k |-> "Nop", c |-> <<>>, a |-> [stmt |-> TRUE]]
\* A marker that leaves no trace of the function.
InlineMarkerAsNop(fn) == [k |-> "Nop", c |-> <<>>, a |-> [stmt |-> TRUE]]
InlineMarker(fn) == [k |-> "InlineMarker", c |-> <<>>, a |-> [fFuncDecl |-> fn]]
IfStatement(t, x, y) == [k |-> "If", c |-> <<t, x, y>>, a |-> [fIsStatic |-> FALSE]]
ForStatement(init, test, next, body, syms) ==
    [k |-> "For", c |-> <<init, test, next, body>>, a |-> [fSymbols |-> syms]]
WhileStatement(test, body) == [k |-> "While", c |-> <<test, body>>, a |-> [stmt |-> TRUE]]
DoStatement(body, test) == [k |-> "Do", c |-> <<body, test>>, a |-> [stmt |-> TRUE]]
SwitchCase(value, stmts) ==
    [k |-> "SwitchCase", c |-> <<value>> \o stmts, a |-> [stmt |-> TRUE]]
SwitchStatement(value, cases, syms) ==
    [k |-> "Switch", c |-> <<value>> \o cases,
     a |-> [fSymbols |-> syms, fIsStatic |-> FALSE]]
VarDeclaration(v, value) ==
    [k |-> "VarDeclaration", c |-> <<value>>, a |-> [fVar |-> v]]
VarDeclarationsStatement(type, decls) ==
    [k |-> "VarDeclarations", c |-> decls, a |-> [fBaseType |-> type]]

(***************************************************************************)
(* Slots.  NodeAt follows a path of child indices; ReplaceAt overwrites    *)
(* the slot a path leads to.                                               *)
(***************************************************************************)
RECURSIVE NodeAt(_, _)
NodeAt(root, path) ==
    IF path = <<>> THEN root ELSE NodeAt(root.c[Head(path)], Tail(path))

RECURSIVE ReplaceAt(_, _, _)
ReplaceAt(root, path, new) ==
    IF path = <<>> THEN new
    ELSE [root EXCEPT !.c[Head(path)] = ReplaceAt(root.c[Head(path)], Tail(path), new)]

IsPrefix(p, q) == Len(p) <= Len(q) /\ SubSeq(q, 1, Len(p)) = p
IsProperPrefix(p, q) == Len(p) < Len(q) /\ SubSeq(q, 1, Len(p)) = p

\* All paths of a tree, in pre-order.
RECURSIVE AllPaths(_, _)
RECURSIVE AllPathsFrom(_, _, _)
AllPaths(n, path) == <<path>> \o AllPathsFrom(n, path, 1)
AllPathsFrom(n, path, i) ==
    IF i > Len(n.c) THEN <<>>
    ELSE AllPaths(n.c[i], Append(path, i)) \o AllPathsFrom(n, path, i + 1)

SeqToSet(s) == {s[i] : i \in 1..Len(s)}

\* A local variable: Op at the value v, which Op may use more than once.
With(v, Op(_)) == Op(v)
PathsOf(n) == SeqToSet(AllPaths(n, <<>>))

(***************************************************************************)
(* ProgramVisitor: the default traversal visits every statement and every  *)
(* expression below a node.  Count(n, P) is the number of nodes below and  *)
(* including n that are of a kind in P.                                    *)
(***************************************************************************)
RECURSIVE CountKinds(_, _)
RECURSIVE CountKindsFrom(_, _, _)
CountKinds(n, kinds) ==
    (IF n.k \in kinds THEN 1 ELSE 0) + CountKindsFrom(n, kinds, 1)
CountKindsFrom(n, kinds, i) ==
    IF i > Len(n.c) THEN 0
    ELSE CountKinds(n.c[i], kinds) + CountKindsFrom(n, kinds, i + 1)

\* Analysis::NodeCount: the statements and expressions of a function definition.
NodeCount(body) == CountKinds(body, StatementKinds \cup ExpressionKinds)

\* Analysis::StatementWritesToVariable: some reference to v is not a plain read.
RECURSIVE StatementWritesToVariable(_, _)
RECURSIVE WritesFrom(_, _, _)
StatementWritesToVariable(n, v) ==
    \/ n.k = "VariableReference" /\ n.a.fVariable = v /\ n.a.fRefKind # "read"
    \/ WritesFrom(n, v, 1)
WritesFrom(n, v, i) ==
    IF i > Len(n.c) THEN FALSE
    ELSE StatementWritesToVariable(n.c[i], v) \/ WritesFrom(n, v, i + 1)

(***************************************************************************)
(* Returns analyzer.                                                       *)
(***************************************************************************)
RECURSIVE count_all_returns(_)
RECURSIVE count_all_returns_from(_, _)
count_all_returns(stmt) ==
    IF ~IsStatement(stmt) THEN 0
    ELSE (IF stmt.k = "Return" THEN 1 ELSE 0) + count_all_returns_from(stmt, 1)
count_all_returns_from(stmt, i) ==
    IF i > Len(stmt.c) THEN 0
    ELSE count_all_returns(stmt.c[i]) + count_all_returns_from(stmt, i + 1)

RECURSIVE count_returns_at_end_of_control_flow(_)
RECURSIVE count_returns_at_end_from(_, _)
\* A count that looks into every statement, loops and switches included.
count_returns_at_end_of_control_flowEverywhere(stmt) == count_all_returns(stmt)

count_returns_at_end_of_control_flow(stmt) ==
    IF ~IsStatement(stmt) THEN 0
    ELSE IF stmt.k = "Block"
         THEN (IF Len(stmt.c) > 0
               THEN count_returns_at_end_of_control_flow(stmt.c[Len(stmt.c)])
               ELSE 0)
    ELSE IF stmt.k \in BreakableKinds THEN 0
    ELSE (IF stmt.k = "Return" THEN 1 ELSE 0) + count_returns_at_end_from(stmt, 1)
count_returns_at_end_from(stmt, i) ==
    IF i > Len(stmt.c) THEN 0
    ELSE count_returns_at_end_of_control_flow(stmt.c[i])
         + count_returns_at_end_from(stmt, i + 1)

RECURSIVE count_returns_in_breakable(_, _)
RECURSIVE count_returns_in_breakable_from(_, _, _)
count_returns_in_breakable(stmt, fInsideBreakableConstruct) ==
    IF ~IsStatement(stmt) THEN 0
    ELSE IF stmt.k \in BreakableKinds
         THEN count_returns_in_breakable_from(stmt, fInsideBreakableConstruct + 1, 1)
    ELSE (IF stmt.k = "Return" /\ fInsideBreakableConstruct > 0 THEN 1 ELSE 0)
         + count_returns_in_breakable_from(stmt, fInsideBreakableConstruct, 1)
count_returns_in_breakable_from(stmt, inside, i) ==
    IF i > Len(stmt.c) THEN 0
    ELSE count_returns_in_breakable(stmt.c[i], inside)
         + count_returns_in_breakable_from(stmt, inside, i + 1)

count_returns_in_breakable_constructs(body) == count_returns_in_breakable(body, 0)

has_early_return(body) ==
    LET returnCount == count_all_returns(body) IN
    IF returnCount = 0 THEN FALSE
    ELSE returnCount > count_returns_at_end_of_control_flow(body)

\* ContainsRecursiveCall::visitExpression / visitStatement over a subtree.
RECURSIVE ContainsCallOrMarker(_, _)
RECURSIVE ContainsCallOrMarkerFrom(_, _, _)
\* A search that finds the calls of fn and not the inline markers of fn.
ContainsCallOnly(n, fn) ==
    \/ n.k = "FunctionCall" /\ n.a.fFunction = fn
    \/ ContainsCallOrMarkerFrom(n, fn, 1)

ContainsCallOrMarker(n, fn) ==
    \/ n.k = "FunctionCall" /\ n.a.fFunction = fn
    \/ n.k = "InlineMarker" /\ n.a.fFuncDecl = fn
    \/ ContainsCallOrMarkerFrom(n, fn, 1)
ContainsCallOrMarkerFrom(n, fn, i) ==
    IF i > Len(n.c) THEN FALSE
    ELSE ContainsCallOrMarker(n.c[i], fn) \/ ContainsCallOrMarkerFrom(n, fn, i + 1)

(***************************************************************************)
(* Program elements and symbol tables.                                     *)
(*   program[i] = [k, fName, fReturnType, fParameters, fModifiers,         *)
(*                 fCallCount, fBody]       for k = "Function"             *)
(*   a parameter = [var, type, flags]                                      *)
(*   symbols[t] = [fParent, names, owned]: names is the lookup map of the  *)
(*   table, owned the Variable objects it owns, table 0 is the null table. *)
(***************************************************************************)
\* FunctionDeclaration::fDefinition: the index of the definition of fn, 0 if none.
FindDefinition(prog, fn) ==
    IF \E i \in 1..Len(prog) : prog[i].k = "Function" /\ prog[i].fName = fn
    THEN CHOOSE i \in 1..Len(prog) : prog[i].k = "Function" /\ prog[i].fName = fn
    ELSE 0

\* SymbolTable::operator[]: the name is looked up in the table and its parents.
RECURSIVE Lookup(_, _, _)
Lookup(syms, t, name) ==
    /\ t # 0
    /\ \/ name \in syms[t].names
       \/ Lookup(syms, syms[t].fParent, name)

\* The Variable object behind an identity.
VariableOf(syms, v) == CHOOSE r \in syms[v.table].owned : r.name = v.name

\* contains_recursive_call
contains_recursive_call(prog, fn) ==
    LET def == FindDefinition(prog, fn) IN
    IF def = 0 THEN FALSE ELSE ContainsCallOrMarker(prog[def].fBody, fn)

(***************************************************************************)
(* Scope repair.                                                           *)
(***************************************************************************)
RECURSIVE NeedsScope(_)
NeedsScope(nestedBlock) ==
    IF nestedBlock.a.fIsScope THEN FALSE
    ELSE IF Len(nestedBlock.c) # 1 THEN TRUE
    ELSE IF nestedBlock.c[1].k # "Block" THEN FALSE
    ELSE NeedsScope(nestedBlock.c[1])

ensure_scoped_blocks(inlinedBody, parentStmt) ==
    IF parentStmt.present /\ parentStmt.k \in {"If", "For", "Do", "While"}
                          /\ NeedsScope(inlinedBody)
    THEN [inlinedBody EXCEPT !.a.fIsScope = TRUE]
    ELSE inlinedBody

\* find_parent_statement: the innermost statement of the stack below its last
\* element that is not a scopeless Block.
RECURSIVE find_parent_from(_, _, _)
find_parent_from(root, stmtStack, i) ==
    IF i < 1 THEN [present |-> FALSE, k |-> "Null", path |-> <<>>]
    ELSE LET stmt == NodeAt(root, stmtStack[i]) IN
         IF stmt.k # "Block" \/ stmt.a.fIsScope
         THEN [present |-> TRUE, k |-> stmt.k, path |-> stmtStack[i]]
         ELSE find_parent_from(root, stmtStack, i - 1)

\* A search that stops at the nearest statement of the stack, scopeless block or not.
find_parent_statementNearest(root, stmtStack) ==
    IF Len(stmtStack) < 2 THEN [present |-> FALSE, k |-> "Null", path |-> <<>>]
    ELSE [present |-> TRUE,
          k |-> NodeAt(root, stmtStack[Len(stmtStack) - 1]).k,
          path |-> stmtStack[Len(stmtStack) - 1]]

find_parent_statement(root, stmtStack) ==
    find_parent_from(root, stmtStack, Len(stmtStack) - 1)

(***************************************************************************)
(* Naming service.                                                         *)
(***************************************************************************)
DigitChars == <<"0", "1", "2", "3", "4", "5", "6", "7", "8", "9">>

\* printf("%d") of a non-negative int.
RECURSIVE Digits(_)
Digits(n) ==
    IF n < 10 THEN <<DigitChars[n + 1]>>
    ELSE Digits(n \div 10) \o <<DigitChars[(n % 10) + 1]>>

startsWith(name, ch) == Len(name) > 0 /\ name[1] = ch

\* Inliner::uniqueNameForInlineVar; returns the name and the counter after it.
RECURSIVE uniqueNameForInlineVar(_, _, _, _)
\* A naming that always puts the splitter between the number and the base name.
uniqueNameForInlineVarAlwaysSplit(baseName, symbolTable, counter, syms) ==
    LET uniqueName == <<"_">> \o Digits(counter) \o <<"_">> \o baseName
    IN  IF ~Lookup(syms, symbolTable, uniqueName)
        THEN [name |-> uniqueName, counter |-> counter + 1]
        ELSE uniqueNameForInlineVar(baseName, symbolTable, counter + 1, syms)

uniqueNameForInlineVar(baseName, symbolTable, counter, syms) ==
    LET splitter == IF startsWith(baseName, "_") THEN <<>> ELSE <<"_">>
        uniqueName == <<"_">> \o Digits(counter) \o splitter \o baseName
    IN  IF ~Lookup(syms, symbolTable, uniqueName)
        THEN [name |-> uniqueName, counter |-> counter + 1]
        ELSE uniqueNameForInlineVar(baseName, symbolTable, counter + 1, syms)

(***************************************************************************)
(* IR cloner.                                                              *)
(***************************************************************************)
\* Inliner::inlineExpression.  varMap maps a Variable to [var, type].
RECURSIVE inlineExpression(_, _)
\* A clone that makes every remapped reference a read.
inlineExpressionAsRead(varMap, expression) ==
    IF IsNull(expression) THEN NullNode
    ELSE IF expression.k = "VariableReference"
    THEN (IF expression.a.fVariable \in DOMAIN varMap
          THEN VariableReference(varMap[expression.a.fVariable].var,
                                 varMap[expression.a.fVariable].type,
                                 "read")
          ELSE expression)
    ELSE [expression EXCEPT
            !.c = [i \in 1..Len(expression.c) |-> inlineExpression(varMap, expression.c[i])]]

inlineExpression(varMap, expression) ==
    IF IsNull(expression) THEN NullNode
    ELSE IF expression.k = "VariableReference"
    THEN (IF expression.a.fVariable \in DOMAIN varMap
          THEN VariableReference(varMap[expression.a.fVariable].var,
                                 varMap[expression.a.fVariable].type,
                                 expression.a.fRefKind)
          ELSE expression)
    ELSE [expression EXCEPT
            !.c = [i \in 1..Len(expression.c) |-> inlineExpression(varMap, expression.c[i])]]

\* A lowering of `return` that clones the statement as a `return`.
LowerReturnAsReturn(varMap, returnVar, haveEarlyReturns, r) ==
    ReturnStatement(inlineExpression(varMap, r.c[1]))

\* A lowering of `return` that never leaves the cloned body.
LowerReturnWithoutBreak(varMap, returnVar, haveEarlyReturns, r) ==
    IF ~IsNull(r.c[1])
    THEN ExpressionStatement(
             BinaryExpression(
                 VariableReference(returnVar.var, returnVar.type, "write"),
                 "=",
                 inlineExpression(varMap, r.c[1]),
                 returnVar.type))
    ELSE Nop

\* The lowering of `return` (Inliner::inlineStatement, kReturn).
LowerReturn(varMap, returnVar, haveEarlyReturns, r) ==
    IF ~IsNull(r.c[1])
    THEN LET assignment ==
                 ExpressionStatement(
                     BinaryExpression(
                         VariableReference(returnVar.var, returnVar.type, "write"),
                         "=",
                         inlineExpression(varMap, r.c[1]),
                         returnVar.type))
         IN  IF haveEarlyReturns
             THEN Block(<<assignment, BreakStatement>>, 0, TRUE)
             ELSE assignment
    ELSE IF haveEarlyReturns THEN BreakStatement ELSE Nop

\* Inliner::inlineStatement.  cx = [symTab, returnVar, haveEarlyReturns, ifOrder]
\* is fixed during one inlineCall; st = [varMap, counter, symbols] is what the
\* clone of one statement hands to the next.  Returns [node, st].
RECURSIVE inlineStatement(_, _, _)
RECURSIVE inlineStatements(_, _, _)
inlineStatements(cx, st, ss) ==
    IF ss = <<>> THEN [nodes |-> <<>>, st |-> st]
    ELSE With(inlineStatement(cx, st, Head(ss)), LAMBDA h :
         With(inlineStatements(cx, h.st, Tail(ss)), LAMBDA t :
              [nodes |-> <<h.node>> \o t.nodes, st |-> t.st]))

inlineStatement(cx, st, statement) ==
    IF IsNull(statement) THEN [node |-> NullNode, st |-> st]
    ELSE IF statement.k \in {"Block", "VarDeclarations"}
    THEN With(inlineStatements(cx, st, statement.c), LAMBDA r :
              [node |-> [statement EXCEPT !.c = r.nodes], st |-> r.st])
    ELSE IF statement.k \in {"Break", "Continue", "Discard", "InlineMarker", "Nop"}
    THEN [node |-> statement, st |-> st]
    ELSE IF statement.k = "Do"
    THEN With(inlineStatement(cx, st, statement.c[1]), LAMBDA b :
              [node |-> [statement EXCEPT
                           !.c = <<b.node, inlineExpression(st.varMap, statement.c[2])>>],
               st |-> b.st])
    ELSE IF statement.k = "Expression"
    THEN [node |-> ExpressionStatement(inlineExpression(st.varMap, statement.c[1])),
          st |-> st]
    ELSE IF statement.k = "For"
    THEN With(inlineStatement(cx, st, statement.c[1]), LAMBDA initializer :
         With(inlineStatement(cx, initializer.st, statement.c[4]), LAMBDA b :
              [node |-> [statement EXCEPT
                           !.c = <<initializer.node,
                                   inlineExpression(initializer.st.varMap, statement.c[2]),
                                   inlineExpression(initializer.st.varMap, statement.c[3]),
                                   b.node>>],
               st |-> b.st]))
    ELSE IF statement.k = "If"
    THEN \* stmt(i.fIfTrue) and stmt(i.fIfFalse) are arguments of one call: the
         \* build decides which of the two is cloned first.
         With(IF cx.ifOrder = "ltr" THEN <<2, 3>> ELSE <<3, 2>>, LAMBDA order :
         With(inlineStatement(cx, st, statement.c[order[1]]), LAMBDA x :
         With(inlineStatement(cx, x.st, statement.c[order[2]]), LAMBDA y :
              [node |-> [statement EXCEPT
                           !.c = <<inlineExpression(st.varMap, statement.c[1]),
                                   IF order[1] = 2 THEN x.node ELSE y.node,
                                   IF order[1] = 2 THEN y.node ELSE x.node>>],
               st |-> y.st])))
    ELSE IF statement.k = "Return"
    THEN [node |-> LowerReturn(st.varMap, cx.returnVar, cx.haveEarlyReturns, statement),
          st |-> st]
    ELSE IF statement.k = "Switch"
    THEN With(inlineStatements(cx, st, Tail(statement.c)), LAMBDA cases :
              [node |-> [statement EXCEPT
                           !.c = <<inlineExpression(cases.st.varMap, statement.c[1])>>
                                 \o cases.nodes],
               st |-> cases.st])
    ELSE IF statement.k = "SwitchCase"
    THEN With(inlineStatements(cx, st, Tail(statement.c)), LAMBDA r :
              [node |-> [statement EXCEPT
                           !.c = <<inlineExpression(st.varMap, statement.c[1])>> \o r.nodes],
               st |-> r.st])
    ELSE IF statement.k = "VarDeclaration"
    THEN With(VariableOf(st.symbols, statement.a.fVar), LAMBDA old :
         With(uniqueNameForInlineVar(old.name, cx.symTab, st.counter, st.symbols), LAMBDA u :
              [node |-> VarDeclaration(Var(cx.symTab, u.name),
                                       inlineExpression(st.varMap, statement.c[1])),
               st |-> [varMap |-> (statement.a.fVar :>
                                       [var |-> Var(cx.symTab, u.name), type |-> old.type])
                                  @@ st.varMap,
                       counter |-> u.counter,
                       symbols |-> [st.symbols EXCEPT
                                      ![cx.symTab].owned =
                                          @ \cup {[old EXCEPT !.name = u.name]}]]]))
    ELSE \* kWhile
         With(inlineStatement(cx, st, statement.c[2]), LAMBDA b :
              [node |-> [statement EXCEPT
                           !.c = <<inlineExpression(st.varMap, statement.c[1]), b.node>>],
               st |-> b.st])

(***************************************************************************)
(* Call rewriter.                                                          *)
(***************************************************************************)
\* makeInlineVar (lambda of Inliner::inlineCall).  acc = [stmts, counter, symbols]
\* are the extra statements, the name counter and the symbol tables so far.
\* Returns the new Variable with the three updated.
\* A makeInlineVar that adds the new variable to the root symbol table.
makeInlineVarInRootTable(acc, symbolTableForCall, baseName, type, modifiers, initialValue) ==
    With(IF type = "$floatLiteral" THEN "float"
         ELSE IF type = "$intLiteral" THEN "int"
         ELSE type, LAMBDA realType :
    With(uniqueNameForInlineVar(baseName, symbolTableForCall, acc.counter, acc.symbols),
         LAMBDA u :
    With(Var(symbolTableForCall, u.name), LAMBDA variableSymbol :
        [var |-> variableSymbol,
         type |-> realType,
         stmts |-> Append(acc.stmts,
                          VarDeclarationsStatement(
                              realType, <<VarDeclaration(variableSymbol, initialValue)>>)),
         counter |-> u.counter,
         symbols |-> [acc.symbols EXCEPT
                        ![1].names = @ \cup {u.name},
                        ![1].owned =
                            @ \cup {[name |-> u.name, type |-> realType, flags |-> {},
                                     storage |-> "local"]}]])))

makeInlineVar(acc, symbolTableForCall, baseName, type, modifiers, initialValue) ==
    With(IF type = "$floatLiteral" THEN "float"
         ELSE IF type = "$intLiteral" THEN "int"
         ELSE type, LAMBDA realType :
    With(uniqueNameForInlineVar(baseName, symbolTableForCall, acc.counter, acc.symbols),
         LAMBDA u :
    With(Var(symbolTableForCall, u.name), LAMBDA variableSymbol :
        [var |-> variableSymbol,
         type |-> realType,
         stmts |-> Append(acc.stmts,
                          VarDeclarationsStatement(
                              realType, <<VarDeclaration(variableSymbol, initialValue)>>)),
         counter |-> u.counter,
         symbols |-> [acc.symbols EXCEPT
                        ![symbolTableForCall].names = @ \cup {u.name},
                        ![symbolTableForCall].owned =
                            @ \cup {[name |-> u.name, type |-> realType, flags |-> {},
                                     storage |-> "local"]}]])))

\* Whether the argument loop binds parameter `param` straight to the variable of
\* `argument` (Inliner::inlineCall, the test in front of `continue`).
PassesThrough(function, param, argument) ==
    /\ argument.k = "VariableReference"
    /\ \/ "out" \in param.flags
       \/ ~StatementWritesToVariable(function.fBody, param.var)

\* The argument loop of Inliner::inlineCall, from argument i on.
\* acc = [stmts, counter, symbols, varMap, arguments].
RECURSIVE BindArguments(_, _, _, _)
BindArguments(function, symbolTableForCall, acc, i) ==
    IF i > Len(acc.arguments) THEN acc
    ELSE LET param == function.fParameters[i]
             arg == acc.arguments[i]
         IN  IF PassesThrough(function, param, arg)
             THEN BindArguments(function, symbolTableForCall,
                      [acc EXCEPT !.varMap = (param.var :>
                                     [var |-> arg.a.fVariable, type |-> arg.a.type]) @@ @],
                      i + 1)
             ELSE With(makeInlineVar(acc, symbolTableForCall, param.var.name,
                                     arg.a.type, param.flags, arg), LAMBDA m :
                      BindArguments(function, symbolTableForCall,
                          [stmts |-> m.stmts,
                           counter |-> m.counter,
                           symbols |-> m.symbols,
                           varMap |-> (param.var :> [var |-> m.var, type |-> m.type])
                                      @@ acc.varMap,
                           \* an `out` argument is cloned, any other is moved away
                           arguments |-> IF "out" \in param.flags THEN acc.arguments
                                         ELSE [acc.arguments EXCEPT ![i] = NullNode]],
                          i + 1))

\* The copy-back loop of Inliner::inlineCall, from argument i on.
RECURSIVE CopyOutParameters(_, _, _, _)
\* A copy-back loop that does not skip the parameters bound to the argument.
CopyOutParametersAlways(function, arguments, varMap, i) ==
    IF i > Len(arguments) THEN <<>>
    ELSE LET p == function.fParameters[i] IN
         (IF "out" \in p.flags
          THEN <<ExpressionStatement(
                     BinaryExpression(
                         arguments[i],
                         "=",
                         VariableReference(varMap[p.var].var, varMap[p.var].type, "read"),
                         arguments[i].a.type))>>
          ELSE <<>>)
         \o CopyOutParameters(function, arguments, varMap, i + 1)

CopyOutParameters(function, arguments, varMap, i) ==
    IF i > Len(arguments) THEN <<>>
    ELSE LET p == function.fParameters[i] IN
         (IF /\ "out" \in p.flags
             /\ ~ (/\ arguments[i].k = "VariableReference"
                   /\ arguments[i].a.fVariable = varMap[p.var].var)
          THEN <<ExpressionStatement(
                     BinaryExpression(
                         arguments[i],
                         "=",
                         VariableReference(varMap[p.var].var, varMap[p.var].type, "read"),
                         arguments[i].a.type))>>
          ELSE <<>>)
         \o CopyOutParameters(function, arguments, varMap, i + 1)

\* An inlineCall that names the argument temporaries before the result variable.
inlineCallArgumentsFirst(prog, syms, counter, call, symbolTableForCall, ifOrder) ==
    With(prog[FindDefinition(prog, call.a.fFunction)], LAMBDA function :
    With(has_early_return(function.fBody), LAMBDA hasEarlyReturn :
    With(function.fReturnType = "void", LAMBDA isVoid :
    With(BindArguments(function, symbolTableForCall,
                       [stmts |-> <<InlineMarker(call.a.fFunction)>>,
                        counter |-> counter, symbols |-> syms, varMap |-> << >>,
                        arguments |-> call.c],
                       1), LAMBDA bound :
    With(IF isVoid
         THEN [var |-> Var(0, <<>>), type |-> "void", stmts |-> bound.stmts,
               counter |-> bound.counter, symbols |-> bound.symbols]
         ELSE makeInlineVar([stmts |-> bound.stmts, counter |-> bound.counter,
                             symbols |-> bound.symbols],
                            symbolTableForCall, function.fName,
                            function.fReturnType, {}, NullNode), LAMBDA result :
    With(inlineStatements(
             [symTab |-> symbolTableForCall,
              returnVar |-> [var |-> result.var, type |-> result.type],
              haveEarlyReturns |-> hasEarlyReturn,
              ifOrder |-> ifOrder],
             [varMap |-> bound.varMap, counter |-> result.counter,
              symbols |-> result.symbols],
             function.fBody.c), LAMBDA cloned :
    With(Block(cloned.nodes, 0, TRUE), LAMBDA inlineBlock :
        [fInlinedBody |->
             Block(result.stmts
                   \o <<IF hasEarlyReturn THEN DoStatement(inlineBlock, BoolLiteral(FALSE))
                        ELSE inlineBlock>>
                   \o CopyOutParameters(function, bound.arguments, bound.varMap, 1),
                   0, FALSE),
         fReplacementExpr |-> IF isVoid THEN BoolLiteral(FALSE)
                              ELSE VariableReference(result.var, result.type, "read"),
         counter |-> cloned.st.counter,
         symbols |-> cloned.st.symbols,
         varMap |-> bound.varMap,
         hasResult |-> ~isVoid,
         resultVar |-> result.var])))))))

\* Inliner::inlineCall.  Returns the InlinedCall together with the counter and
\* the symbol tables it leaves, and the bindings it made.
inlineCall(prog, syms, counter, call, symbolTableForCall, ifOrder) ==
    With(prog[FindDefinition(prog, call.a.fFunction)], LAMBDA function :
    With(has_early_return(function.fBody), LAMBDA hasEarlyReturn :
    With(function.fReturnType = "void", LAMBDA isVoid :
    With([stmts |-> <<InlineMarker(call.a.fFunction)>>,
          counter |-> counter, symbols |-> syms], LAMBDA start :
    With(IF isVoid THEN [var |-> Var(0, <<>>), type |-> "void"] @@ start
         ELSE makeInlineVar(start, symbolTableForCall, function.fName,
                            function.fReturnType, {}, NullNode), LAMBDA result :
    With(BindArguments(function, symbolTableForCall,
                       [stmts |-> result.stmts, counter |-> result.counter,
                        symbols |-> result.symbols, varMap |-> << >>,
                        arguments |-> call.c],
                       1), LAMBDA bound :
    With(inlineStatements(
             [symTab |-> symbolTableForCall,
              returnVar |-> [var |-> result.var, type |-> result.type],
              haveEarlyReturns |-> hasEarlyReturn,
              ifOrder |-> ifOrder],
             [varMap |-> bound.varMap, counter |-> bound.counter,
              symbols |-> bound.symbols],
             function.fBody.c), LAMBDA cloned :
    With(Block(cloned.nodes, 0, TRUE), LAMBDA inlineBlock :
        [fInlinedBody |->
             Block(bound.stmts
                   \o <<IF hasEarlyReturn THEN DoStatement(inlineBlock, BoolLiteral(FALSE))
                        ELSE inlineBlock>>
                   \o CopyOutParameters(function, bound.arguments, bound.varMap, 1),
                   0, FALSE),
         fReplacementExpr |-> IF isVoid THEN BoolLiteral(FALSE)
                              ELSE VariableReference(result.var, result.type, "read"),
         counter |-> cloned.st.counter,
         symbols |-> cloned.st.symbols,
         varMap |-> bound.varMap,
         hasResult |-> ~isVoid,
         resultVar |-> result.var]))))))))

(***************************************************************************)
(* Safety check.                                                           *)
(***************************************************************************)
canUseDoLoops(settings) == settings.fCaps = "doLoops"

\* A safety check that does not look for returns inside breakable constructs.
isSafeToInlineWithoutBreakableCheck(prog, settings, functionCall, inlineThreshold) ==
    LET def == FindDefinition(prog, functionCall.a.fFunction) IN
    IF def = 0 THEN FALSE
    ELSE IF /\ inlineThreshold < INT_MAX
            /\ "inline" \notin prog[def].fModifiers
            /\ NodeCount(prog[def].fBody) >= inlineThreshold
    THEN FALSE
    ELSE IF settings.fCaps = "null" \/ ~canUseDoLoops(settings)
    THEN ~has_early_return(prog[def].fBody)
    ELSE TRUE

\* A safety check that takes do loops to be available whatever the caps are.
isSafeToInlineWithoutCapsCheck(prog, settings, functionCall, inlineThreshold) ==
    LET def == FindDefinition(prog, functionCall.a.fFunction) IN
    IF def = 0 THEN FALSE
    ELSE IF /\ inlineThreshold < INT_MAX
            /\ "inline" \notin prog[def].fModifiers
            /\ NodeCount(prog[def].fBody) >= inlineThreshold
    THEN FALSE
    ELSE ~(count_returns_in_breakable_constructs(prog[def].fBody) > 0)

\* A safety check that measures the call expression, not the definition of the callee.
isSafeToInlineMeasuringCall(prog, settings, functionCall, inlineThreshold) ==
    LET def == FindDefinition(prog, functionCall.a.fFunction) IN
    IF def = 0 THEN FALSE
    ELSE IF /\ inlineThreshold < INT_MAX
            /\ "inline" \notin prog[def].fModifiers
            /\ NodeCount(functionCall) >= inlineThreshold
    THEN FALSE
    ELSE IF settings.fCaps = "null" \/ ~canUseDoLoops(settings)
    THEN ~has_early_return(prog[def].fBody)
    ELSE ~(count_returns_in_breakable_constructs(prog[def].fBody) > 0)

\* A safety check that accepts a callee whose node count equals the threshold.
isSafeToInlineAtThreshold(prog, settings, functionCall, inlineThreshold) ==
    LET def == FindDefinition(prog, functionCall.a.fFunction) IN
    IF def = 0 THEN FALSE
    ELSE IF /\ inlineThreshold < INT_MAX
            /\ "inline" \notin prog[def].fModifiers
            /\ NodeCount(prog[def].fBody) > inlineThreshold
    THEN FALSE
    ELSE IF settings.fCaps = "null" \/ ~canUseDoLoops(settings)
    THEN ~has_early_return(prog[def].fBody)
    ELSE ~(count_returns_in_breakable_constructs(prog[def].fBody) > 0)

\* Inliner::isSafeToInline
isSafeToInline(prog, settings, functionCall, inlineThreshold) ==
    LET def == FindDefinition(prog, functionCall.a.fFunction) IN
    IF def = 0 THEN FALSE
    ELSE IF /\ inlineThreshold < INT_MAX
            /\ "inline" \notin prog[def].fModifiers
            /\ NodeCount(prog[def].fBody) >= inlineThreshold
    THEN FALSE
    ELSE IF settings.fCaps = "null" \/ ~canUseDoLoops(settings)
    THEN ~has_early_return(prog[def].fBody)
    ELSE ~(count_returns_in_breakable_constructs(prog[def].fBody) > 0)

(***************************************************************************)
(* Candidate analyzer (InlineCandidateAnalyzer).  The traversal of one     *)
(* function body `root`; `path` is the slot being visited.  A candidate is *)
(* [fSymbols, fParentStmt, fEnclosingStmt, fCandidateExpr].                *)
(***************************************************************************)
Last(s) == s[Len(s)]

addInlineCandidate(root, path, fSymbolTableStack, fEnclosingStmtStack) ==
    <<[fSymbols |-> Last(fSymbolTableStack),
       fParentStmt |-> find_parent_statement(root, fEnclosingStmtStack),
       fEnclosingStmt |-> Last(fEnclosingStmtStack),
       fCandidateExpr |-> path]>>

ShortCircuitOperators == {"&&", "||"}

\* InlineCandidateAnalyzer::visitExpression
RECURSIVE visitExpression(_, _, _, _)
RECURSIVE visitExpressions(_, _, _, _, _)
visitExpressions(root, path, syms, stmts, i) ==
    IF i > Len(NodeAt(root, path).c) THEN <<>>
    ELSE visitExpression(root, Append(path, i), syms, stmts)
         \o visitExpressions(root, path, syms, stmts, i + 1)

\* A traversal that also scans the operands the language may leave unevaluated.
visitExpressionBothOperands(root, path, syms, stmts) ==
    LET expr == NodeAt(root, path) IN
    IF IsNull(expr) THEN <<>>
    ELSE IF expr.k = "FunctionCall"
    THEN visitExpressions(root, path, syms, stmts, 1)
         \o addInlineCandidate(root, path, syms, stmts)
    ELSE IF expr.k \in {"Binary", "Constructor", "ExternalFunctionCall", "Index", "Postfix",
                        "Prefix", "Swizzle", "Ternary"}
    THEN visitExpressions(root, path, syms, stmts, 1)
    ELSE <<>>

visitExpression(root, path, syms, stmts) ==
    LET expr == NodeAt(root, path) IN
    IF IsNull(expr) THEN <<>>
    ELSE IF expr.k = "Binary"
    THEN visitExpression(root, Append(path, 1), syms, stmts)
         \o (IF expr.a.fOperator \notin ShortCircuitOperators
             THEN visitExpression(root, Append(path, 2), syms, stmts)
             ELSE <<>>)
    ELSE IF expr.k \in {"Constructor", "ExternalFunctionCall"}
    THEN visitExpressions(root, path, syms, stmts, 1)
    ELSE IF expr.k = "FunctionCall"
    THEN visitExpressions(root, path, syms, stmts, 1)
         \o addInlineCandidate(root, path, syms, stmts)
    ELSE IF expr.k = "Index"
    THEN visitExpression(root, Append(path, 1), syms, stmts)
         \o visitExpression(root, Append(path, 2), syms, stmts)
    ELSE IF expr.k \in {"Postfix", "Prefix", "Swizzle", "Ternary"}
    THEN \* the operand, the base, or the test of a ternary
         visitExpression(root, Append(path, 1), syms, stmts)
    ELSE \* nothing to scan here
         <<>>

\* InlineCandidateAnalyzer::visitStatement
RECURSIVE visitStatement(_, _, _, _, _)
RECURSIVE visitStatements(_, _, _, _, _, _)
visitStatements(root, path, syms, stmts, viable, i) ==
    IF i > Len(NodeAt(root, path).c) THEN <<>>
    ELSE visitStatement(root, Append(path, i), syms, stmts, viable)
         \o visitStatements(root, path, syms, stmts, viable, i + 1)

\* A traversal that also scans the test expression of a while statement.
visitStatementWithWhileTest(root, path, fSymbolTableStack, fEnclosingStmtStack, isViable) ==
    LET stmt == NodeAt(root, path)
        stmts == IF isViable
                 THEN Append(fEnclosingStmtStack, path)
                 ELSE fEnclosingStmtStack
        syms == IF stmt.k \in {"Block", "For", "Switch"} /\ stmt.a.fSymbols # 0
                THEN Append(fSymbolTableStack, stmt.a.fSymbols)
                ELSE fSymbolTableStack
    IN
    IF IsNull(stmt) THEN <<>>
    ELSE IF stmt.k = "Block"
    THEN visitStatements(root, path, syms, stmts, TRUE, 1)
    ELSE IF stmt.k = "Do"
    THEN visitStatement(root, Append(path, 1), syms, stmts, TRUE)
    ELSE IF stmt.k \in {"Expression", "Return", "VarDeclaration"}
    THEN visitExpression(root, Append(path, 1), syms, stmts)
    ELSE IF stmt.k = "For"
    THEN visitStatement(root, Append(path, 1), syms, stmts, FALSE)
         \o visitStatement(root, Append(path, 4), syms, stmts, TRUE)
    ELSE IF stmt.k = "If"
    THEN visitExpression(root, Append(path, 1), syms, stmts)
         \o visitStatement(root, Append(path, 2), syms, stmts, TRUE)
         \o visitStatement(root, Append(path, 3), syms, stmts, TRUE)
    ELSE IF stmt.k = "Switch"
    THEN visitExpression(root, Append(path, 1), syms, stmts)
         \o visitStatements(root, path, syms, stmts, TRUE, 2)
    ELSE IF stmt.k = "SwitchCase"
    THEN \* the statements of one case of the loop in kSwitch; fValue is skipped
         visitStatements(root, path, fSymbolTableStack, fEnclosingStmtStack, TRUE, 2)
    ELSE IF stmt.k = "VarDeclarations"
    THEN visitStatements(root, path, syms, stmts, FALSE, 1)
    ELSE IF stmt.k = "While"
    THEN visitExpression(root, Append(path, 1), syms, stmts)
         \o visitStatement(root, Append(path, 2), syms, stmts, TRUE)
    ELSE \* kBreak, kContinue, kDiscard, kInlineMarker, kNop
         <<>>

visitStatement(root, path, fSymbolTableStack, fEnclosingStmtStack, isViable) ==
    LET stmt == NodeAt(root, path)
        stmts == IF isViable
                 THEN Append(fEnclosingStmtStack, path)
                 ELSE fEnclosingStmtStack
        syms == IF stmt.k \in {"Block", "For", "Switch"} /\ stmt.a.fSymbols # 0
                THEN Append(fSymbolTableStack, stmt.a.fSymbols)
                ELSE fSymbolTableStack
    IN
    IF IsNull(stmt) THEN <<>>
    ELSE IF stmt.k = "Block"
    THEN visitStatements(root, path, syms, stmts, TRUE, 1)
    ELSE IF stmt.k = "Do"
    THEN visitStatement(root, Append(path, 1), syms, stmts, TRUE)
    ELSE IF stmt.k \in {"Expression", "Return", "VarDeclaration"}
    THEN visitExpression(root, Append(path, 1), syms, stmts)
    ELSE IF stmt.k = "For"
    THEN visitStatement(root, Append(path, 1), syms, stmts, FALSE)
         \o visitStatement(root, Append(path, 4), syms, stmts, TRUE)
    ELSE IF stmt.k = "If"
    THEN visitExpression(root, Append(path, 1), syms, stmts)
         \o visitStatement(root, Append(path, 2), syms, stmts, TRUE)
         \o visitStatement(root, Append(path, 3), syms, stmts, TRUE)
    ELSE IF stmt.k = "Switch"
    THEN visitExpression(root, Append(path, 1), syms, stmts)
         \o visitStatements(root, path, syms, stmts, TRUE, 2)
    ELSE IF stmt.k = "SwitchCase"
    THEN \* the statements of one case of the loop in kSwitch; fValue is skipped
         visitStatements(root, path, fSymbolTableStack, fEnclosingStmtStack, TRUE, 2)
    ELSE IF stmt.k = "VarDeclarations"
    THEN visitStatements(root, path, syms, stmts, FALSE, 1)
    ELSE IF stmt.k = "While"
    THEN visitStatement(root, Append(path, 2), syms, stmts, TRUE)
    ELSE \* kBreak, kContinue, kDiscard, kInlineMarker, kNop
         <<>>

\* InlineCandidateAnalyzer::visit and visitProgramElement: the candidates of the
\* program elements from i on, each tagged with its element.
RECURSIVE visitProgram(_, _, _)
visitProgram(prog, rootSymbols, i) ==
    IF i > Len(prog) THEN <<>>
    ELSE (IF prog[i].k = "Function"
          THEN LET cs == visitStatement(prog[i].fBody, <<>>, <<rootSymbols>>, <<>>, TRUE)
               IN  [j \in 1..Len(cs) |-> [fElement |-> i] @@ cs[j]]
          ELSE <<>>)
         \o visitProgram(prog, rootSymbols, i + 1)

(***************************************************************************)
(* Driver (Inliner::analyze).                                              *)
(***************************************************************************)
\* A slot recorded by the traversal is a pointer; a rewrite moves the enclosing
\* statement, with every slot inside it, to the end of the Block that takes its
\* place.  SlotPath gives the place, in the current tree, of the slot that was
\* at `path` when the traversal ran; done = the rewrites made since, in order,
\* each [fElement, path, n]: the statement at `path` became child n of the Block.
RECURSIVE SlotPath(_, _, _, _)
SlotPath(path, element, done, i) ==
    IF i > Len(done) THEN path
    ELSE LET d == done[i] IN
         SlotPath(IF d.fElement = element /\ IsProperPrefix(d.path, path)
                  THEN d.path \o <<d.n>> \o SubSeq(path, Len(d.path) + 1, Len(path))
                  ELSE path,
                  element, done, i + 1)

\* fCallCount of a declaration (a declaration without definition is never inlined).
CallCountOf(prog, fn) ==
    IF FindDefinition(prog, fn) = 0 THEN 0 ELSE prog[FindDefinition(prog, fn)].fCallCount

\* The first loop of Inliner::analyze: the memoized verdicts, from candidate i on.
RECURSIVE BuildInlinableMap(_, _, _, _, _)
\* The verdicts without the refusal of recursive callees.
BuildInlinableMapWithoutRecursionTest(prog, settings, cands, map, i) ==
    IF i > Len(cands) THEN map
    ELSE LET funcCall == NodeAt(prog[cands[i].fElement].fBody, cands[i].fCandidateExpr)
             funcDecl == funcCall.a.fFunction
             inlineThreshold == IF CallCountOf(prog, funcDecl) > 1
                                THEN settings.fInlineThreshold
                                ELSE INT_MAX
         IN  BuildInlinableMap(prog, settings, cands,
                 IF funcDecl \in DOMAIN map THEN map
                 ELSE (funcDecl :> isSafeToInline(prog, settings, funcCall, inlineThreshold))
                      @@ map,
                 i + 1)

BuildInlinableMap(prog, settings, cands, map, i) ==
    IF i > Len(cands) THEN map
    ELSE LET funcCall == NodeAt(prog[cands[i].fElement].fBody, cands[i].fCandidateExpr)
             funcDecl == funcCall.a.fFunction
             inlineThreshold == IF CallCountOf(prog, funcDecl) > 1
                                THEN settings.fInlineThreshold
                                ELSE INT_MAX
         IN  BuildInlinableMap(prog, settings, cands,
                 IF funcDecl \in DOMAIN map THEN map
                 ELSE (funcDecl :> (/\ isSafeToInline(prog, settings, funcCall, inlineThreshold)
                                    /\ ~contains_recursive_call(prog, funcDecl)))
                      @@ map,
                 i + 1)

\* The body of the second loop of Inliner::analyze for one candidate that is
\* rewritten.  acc = [program, symbols, counter, enclosingStmtSet, madeChanges,
\* done, rewrites].
RewriteCandidate(acc, candidate, ifOrder) ==
    With(candidate.fElement, LAMBDA element :
    With(acc.program[element].fBody, LAMBDA root :
    With(SlotPath(candidate.fCandidateExpr, element, acc.done, 1), LAMBDA exprPath :
    With(SlotPath(candidate.fEnclosingStmt, element, acc.done, 1), LAMBDA stmtPath :
    With(NodeAt(root, exprPath), LAMBDA funcCall :
    With(inlineCall(acc.program, acc.symbols, acc.counter, funcCall,
                    candidate.fSymbols, ifOrder), LAMBDA inlinedCall :
    With([ensure_scoped_blocks(inlinedCall.fInlinedBody, candidate.fParentStmt)
             EXCEPT !.c = Append(@, NodeAt(root, stmtPath))], LAMBDA block :
    With(Len(block.c), LAMBDA n :
    With(ReplaceAt(ReplaceAt(root, stmtPath, block),
                   stmtPath \o <<n>> \o SubSeq(exprPath, Len(stmtPath) + 1, Len(exprPath)),
                   inlinedCall.fReplacementExpr), LAMBDA replaced :
        [program |-> [acc.program EXCEPT ![element].fBody = replaced],
         symbols |-> inlinedCall.symbols,
         counter |-> inlinedCall.counter,
         enclosingStmtSet |-> acc.enclosingStmtSet
                              \cup {<<element, candidate.fEnclosingStmt>>},
         madeChanges |-> TRUE,
         done |-> Append(acc.done, [fElement |-> element, path |-> stmtPath, n |-> n]),
         rewrites |-> Append(acc.rewrites,
                             [candidate |-> candidate,
                              call |-> funcCall,
                              callee |-> acc.program[FindDefinition(acc.program,
                                                                    funcCall.a.fFunction)],
                              inlinedCall |-> inlinedCall,
                              block |-> block,
                              counterBefore |-> acc.counter,
                              symbolsBefore |-> acc.symbols,
                              before |-> acc.program,
                              after |-> [acc.program EXCEPT ![element].fBody = replaced]])
        ])))))))))

\* The second loop of Inliner::analyze, from candidate i on.
RECURSIVE InlineCandidates(_, _, _, _, _)
\* A loop in which a candidate that is not inlined still reserves its enclosing
\* statement for this pass.
InlineCandidatesReservingSlots(cands, map, ifOrder, acc, i) ==
    IF i > Len(cands) THEN acc
    ELSE LET candidate == cands[i]
             exprPath == SlotPath(candidate.fCandidateExpr, candidate.fElement, acc.done, 1)
             funcCall == NodeAt(acc.program[candidate.fElement].fBody, exprPath)
             funcDecl == funcCall.a.fFunction
             slot == <<candidate.fElement, candidate.fEnclosingStmt>>
         IN  IF slot \in acc.enclosingStmtSet
             THEN InlineCandidates(cands, map, ifOrder, acc, i + 1)
             ELSE IF ~map[funcDecl]
             THEN InlineCandidates(cands, map, ifOrder,
                                   [acc EXCEPT !.enclosingStmtSet = @ \cup {slot}], i + 1)
             ELSE InlineCandidates(cands, map, ifOrder,
                                   RewriteCandidate(acc, candidate, ifOrder), i + 1)

\* A loop that keeps no set of the enclosing statements it has rewritten.
InlineCandidatesWithoutSlotSet(cands, map, ifOrder, acc, i) ==
    IF i > Len(cands) THEN acc
    ELSE LET candidate == cands[i]
             exprPath == SlotPath(candidate.fCandidateExpr, candidate.fElement, acc.done, 1)
             funcCall == NodeAt(acc.program[candidate.fElement].fBody, exprPath)
             funcDecl == funcCall.a.fFunction
         IN  IF ~map[funcDecl]
             THEN InlineCandidates(cands, map, ifOrder, acc, i + 1)
             ELSE InlineCandidates(cands, map, ifOrder,
                                   RewriteCandidate(acc, candidate, ifOrder), i + 1)

InlineCandidates(cands, map, ifOrder, acc, i) ==
    IF i > Len(cands) THEN acc
    ELSE LET candidate == cands[i]
             exprPath == SlotPath(candidate.fCandidateExpr, candidate.fElement, acc.done, 1)
             funcCall == NodeAt(acc.program[candidate.fElement].fBody, exprPath)
             funcDecl == funcCall.a.fFunction
         IN  IF ~map[funcDecl]
             THEN InlineCandidates(cands, map, ifOrder, acc, i + 1)
             ELSE IF <<candidate.fElement, candidate.fEnclosingStmt>> \in acc.enclosingStmtSet
             THEN InlineCandidates(cands, map, ifOrder, acc, i + 1)
             ELSE InlineCandidates(cands, map, ifOrder,
                                   RewriteCandidate(acc, candidate, ifOrder), i + 1)

\* Inliner::analyze on the current program.
RootSymbols == 1

\* A pass that reports a change as soon as it has found a candidate.
analyzeReportingCandidates(prog, syms, counter, settings, ifOrder) ==
    With(visitProgram(prog, RootSymbols, 1), LAMBDA cands :
    With(BuildInlinableMap(prog, settings, cands, << >>, 1), LAMBDA map :
        [fInlineCandidates |-> cands,
         inlinableMap |-> map,
         final |-> InlineCandidates(cands, map, ifOrder,
                                    [program |-> prog, symbols |-> syms, counter |-> counter,
                                     enclosingStmtSet |-> {}, madeChanges |-> cands # <<>>,
                                     done |-> <<>>, rewrites |-> <<>>],
                                    1)]))

analyze(prog, syms, counter, settings, ifOrder) ==
    With(visitProgram(prog, RootSymbols, 1), LAMBDA cands :
    With(BuildInlinableMap(prog, settings, cands, << >>, 1), LAMBDA map :
        [fInlineCandidates |-> cands,
         inlinableMap |-> map,
         final |-> InlineCandidates(cands, map, ifOrder,
                                    [program |-> prog, symbols |-> syms, counter |-> counter,
                                     enclosingStmtSet |-> {}, madeChanges |-> FALSE,
                                     done |-> <<>>, rewrites |-> <<>>],
                                    1)]))

(***************************************************************************)
(* The programs the inliner is run on: what the parser hands over.         *)
(* Tables: 1 the root table (globals), 2 the body of main, 3 the body of   *)
(* the first callee, 4 the body of the second, 5 a for statement of main,  *)
(* 6 a switch statement of main.                                           *)
(***************************************************************************)
n_main == <<"m", "a", "i", "n">>
n_f == <<"f">>
n_g == <<"g">>
n_h == <<"h">>
n_sq == <<"s", "q">>
n_add == <<"a", "d", "d">>
n_fact == <<"f", "a", "c", "t">>

Rd(t, name, type) == VariableReference(Var(t, name), type, "read")
Wr(t, name, type) == VariableReference(Var(t, name), type, "write")
Assign(lhs, e) == ExpressionStatement(BinaryExpression(lhs, "=", e, lhs.a.type))
Op(l, op, r) == BinaryExpression(l, op, r, IF op \in {"<", "&&", "||"} THEN "bool" ELSE "int")
Param(t, name, type, flags) == [var |-> Var(t, name), type |-> type, flags |-> flags]
Function(name, type, params, mods, stmts, t) ==
    [k |-> "Function", fName |-> name, fReturnType |-> type, fParameters |-> params,
     fModifiers |-> mods, fCallCount |-> 0, fBody |-> Block(stmts, t, TRUE)]

\* ---- callees int f(int x), table 3 ----
X == Rd(3, <<"x">>, "int")
F(stmts) == Function(n_f, "int", <<Param(3, <<"x">>, "int", {})>>, {}, stmts, 3)
CallH(e) == FunctionCall(n_h, <<e>>, "int")
DeclInt(t, name, e) == VarDeclarationsStatement("int", <<VarDeclaration(Var(t, name), e)>>)

FTail == F(<<ReturnStatement(Op(X, "*", X))>>)
FEarly == F(<<IfStatement(Op(X, "<", IntLiteral(0)), ReturnStatement(IntLiteral(0)), NullNode),
              ReturnStatement(Op(X, "+", IntLiteral(1)))>>)
FWhile == F(<<WhileStatement(Op(X, "<", IntLiteral(0)),
                             Block(<<ReturnStatement(IntLiteral(0))>>, 0, TRUE)),
              ReturnStatement(X)>>)
FSwitch == F(<<SwitchStatement(X, <<SwitchCase(IntLiteral(1),
                                               <<ReturnStatement(IntLiteral(2))>>)>>, 0),
               ReturnStatement(X)>>)
FDo == F(<<DoStatement(Block(<<ReturnStatement(X)>>, 0, TRUE), BoolLiteral(FALSE)),
           ReturnStatement(IntLiteral(0))>>)
FFor == F(<<ForStatement(NullNode, Op(X, "<", IntLiteral(3)), NullNode,
                         Block(<<IfStatement(Op(X, "<", IntLiteral(0)),
                                             ReturnStatement(X), NullNode),
                                 BreakStatement>>, 0, TRUE), 0),
            ReturnStatement(IntLiteral(0))>>)
FWrites == F(<<Assign(Wr(3, <<"x">>, "int"), Op(X, "+", IntLiteral(1))),
               ReturnStatement(X)>>)
FSelf == F(<<ReturnStatement(Op(X, "*", FunctionCall(n_f, <<Op(X, "+", IntLiteral(1))>>, "int")))>>)
FCallsH == F(<<ReturnStatement(CallH(X))>>)
FLocal == F(<<DeclInt(3, <<"y">>, X), ReturnStatement(Rd(3, <<"y">>, "int"))>>)
FIfElse == F(<<IfStatement(Op(X, "<", IntLiteral(0)),
                           Block(<<DeclInt(3, <<"y">>, IntLiteral(1)),
                                   ReturnStatement(Rd(3, <<"y">>, "int"))>>, 0, TRUE),
                           Block(<<DeclInt(3, <<"z">>, IntLiteral(2)),
                                   ReturnStatement(Rd(3, <<"z">>, "int"))>>, 0, TRUE))>>)
FGlobal == F(<<Assign(Wr(1, <<"G">>, "int"), IntLiteral(1)), ReturnStatement(X)>>)
FInline == [F(<<IfStatement(Op(X, "<", IntLiteral(0)),
                            Assign(Wr(1, <<"G">>, "int"), Op(X, "+", IntLiteral(1))), NullNode),
                ReturnStatement(Op(X, "*", X))>>) EXCEPT !.fModifiers = {"inline"}]

\* a callee without early return whose node count is SmallThreshold
FNegate == F(<<Assign(Wr(1, <<"G">>, "int"), IntLiteral(1)),
               ReturnStatement(PrefixExpression("-", X, "int"))>>)

FVariants == <<FTail, FEarly, FWhile, FSwitch, FDo, FFor, FWrites, FSelf, FCallsH,
               FLocal, FIfElse, FGlobal, FInline, FNegate>>

\* ---- int h(int z), table 4: a second caller of f ----
H == Function(n_h, "int", <<Param(4, <<"z">>, "int", {})>>, {},
              <<ReturnStatement(FunctionCall(n_f, <<Rd(4, <<"z">>, "int")>>, "int"))>>, 4)

\* ---- void main(), table 2, calling f ----
A == Rd(2, <<"a">>, "int")
B == Rd(2, <<"b">>, "int")
C == Rd(2, <<"c">>, "bool")
Y == Wr(2, <<"y">>, "int")
CallF(e) == FunctionCall(n_f, <<e>>, "int")
MainParameters ==
    <<Param(2, <<"a">>, "int", {}), Param(2, <<"b">>, "int", {}), Param(2, <<"c">>, "bool", {}),
      Param(2, <<"y">>, "int", {}), Param(2, <<"t">>, "int", {}), Param(2, <<"u">>, "int", {}),
      Param(2, <<"v">>, "int", {}), Param(2, <<"s">>, "S", {}),
      Param(2, <<"_", "0", "_", "r">>, "int", {})>>
Main(stmts) == Function(n_main, "void", MainParameters, {}, stmts, 2)

MPlain == Main(<<Assign(Y, CallF(A))>>)
MExprArg == Main(<<Assign(Y, CallF(Op(A, "+", IntLiteral(1))))>>)
MOr == Main(<<Assign(Wr(2, <<"c">>, "bool"),
                     Op(Op(CallF(A), "<", IntLiteral(1)), "||",
                        Op(CallF(B), "<", IntLiteral(1))))>>)
MAnd == Main(<<Assign(Wr(2, <<"c">>, "bool"),
                      Op(Op(CallF(A), "<", IntLiteral(1)), "&&",
                         Op(CallF(B), "<", IntLiteral(1))))>>)
MTernary == Main(<<Assign(Y, TernaryExpression(Op(CallF(A), "<", IntLiteral(1)),
                                               CallF(B), CallF(A), "int"))>>)
MNested == Main(<<Assign(Y, CallF(CallF(A)))>>)
MIf == Main(<<IfStatement(C, Assign(Y, CallF(A)), NullNode), Assign(Y, IntLiteral(0))>>)
MIfTest == Main(<<IfStatement(Op(CallF(A), "<", IntLiteral(1)),
                              Block(<<Assign(Y, CallF(B))>>, 0, TRUE),
                              Assign(Y, IntLiteral(0)))>>)
MWhile == Main(<<WhileStatement(Op(CallF(A), "<", IntLiteral(1)), Assign(Y, CallF(B)))>>)
MDo == Main(<<DoStatement(Block(<<Assign(Y, CallF(B))>>, 0, TRUE),
                          Op(CallF(A), "<", IntLiteral(1)))>>)
I == Rd(5, <<"i">>, "int")
MFor == Main(<<ForStatement(DeclInt(5, <<"i">>, CallF(A)),
                            Op(I, "<", CallF(B)),
                            BinaryExpression(Wr(5, <<"i">>, "int"), "=", CallF(I), "int"),
                            Block(<<Assign(Y, CallF(I))>>, 0, TRUE), 5)>>)
MSwitch == Main(<<SwitchStatement(CallF(A),
                                  <<SwitchCase(IntLiteral(1),
                                               <<Assign(Y, CallF(B)), BreakStatement>>)>>, 6)>>)
MSum == Main(<<Assign(Y, Op(CallF(A), "+", CallF(B)))>>)
MDecl == Main(<<DeclInt(2, <<"w">>, CallF(A))>>)
MTwo == Main(<<Assign(Y, CallF(A)), Assign(Y, CallF(IntLiteral(3)))>>)
MPrefix == Main(<<Assign(Y, PrefixExpression("-", CallF(A), "int"))>>)
MUnscoped == Main(<<IfStatement(C, Block(<<Assign(Y, CallF(A))>>, 0, FALSE), NullNode)>>)

\* calls in the bodies of an if, a for, a do and a while, directly and through
\* a block without scope
MBodies == Main(<<IfStatement(C, Assign(Y, CallF(A)), Assign(Y, CallF(B))),
                  ForStatement(NullNode, C, NullNode, Assign(Y, CallF(A)), 5),
                  DoStatement(Block(<<Assign(Y, CallF(B))>>, 0, FALSE), C),
                  WhileStatement(C, Block(<<Block(<<Assign(Y, CallF(A))>>, 0, FALSE)>>,
                                          0, FALSE))>>)

MMixed == Main(<<Assign(Y, Op(FunctionCall(n_g, <<A>>, "int"), "+", CallF(B)))>>)

MainsF == <<MMixed, MPlain, MExprArg, MOr, MAnd, MTernary, MNested, MIf, MIfTest, MWhile, MDo,
            MFor, MSwitch, MSum, MDecl, MTwo, MPrefix, MUnscoped, MBodies>>


\* ---- callees void g(int r, int a), table 3, and the callers of g ----
R == Rd(3, <<"r">>, "int")
WR == Wr(3, <<"r">>, "int")
GA == Rd(3, <<"a">>, "int")
WG == Wr(1, <<"G">>, "int")
G(flags, stmts) ==
    Function(n_g, "void", <<Param(3, <<"r">>, "int", flags), Param(3, <<"a">>, "int", {})>>,
             {}, stmts, 3)

GOut == G({"out"}, <<Assign(WR, GA)>>)
GInOut == G({"in", "out"}, <<Assign(WR, Op(R, "+", GA))>>)
GWritten == G({}, <<Assign(WR, GA), Assign(WG, R)>>)
GVoidEarly == G({}, <<IfStatement(Op(GA, "<", IntLiteral(0)), ReturnStatement(NullNode), NullNode),
                      Assign(WG, GA)>>)
GVoidTail == G({}, <<Assign(WG, GA), ReturnStatement(NullNode)>>)
GOutEarly == G({"out"}, <<IfStatement(Op(GA, "<", IntLiteral(0)),
                                      Block(<<Assign(WR, IntLiteral(0)),
                                              ReturnStatement(NullNode)>>, 0, TRUE),
                                      NullNode),
                          Assign(WR, GA)>>)
\* r carries a precision modifier and is written by the body
GHighp == G({"highp"}, <<Assign(WR, Op(R, "+", GA)), Assign(WG, R)>>)
GVariants == <<GOut, GInOut, GWritten, GVoidEarly, GVoidTail, GOutEarly, GHighp>>

T == Rd(2, <<"t">>, "int")
U == Rd(2, <<"u">>, "int")
CallG(x, y) == ExpressionStatement(FunctionCall(n_g, <<x, y>>, "void"))
MGVars == Main(<<CallG(T, U)>>)
MGExpr == Main(<<CallG(T, Op(U, "+", IntLiteral(1)))>>)
MGField == Main(<<CallG(FieldAccess(Rd(2, <<"s">>, "S"), 0, "int"), U)>>)
MGAlias == Main(<<CallG(T, T)>>)
MGIf == Main(<<IfStatement(C, CallG(T, U), NullNode), Assign(Y, IntLiteral(0))>>)
MGGlobal == Main(<<CallG(T, Rd(1, <<"G">>, "int"))>>)
\* neither argument is a variable
MGBoth == Main(<<CallG(FieldAccess(Rd(2, <<"s">>, "S"), 0, "int"), Op(U, "+", IntLiteral(1)))>>)
MainsG == <<MGVars, MGExpr, MGField, MGAlias, MGIf, MGGlobal, MGBoth>>

\* ---- the scenarios of the documentation ----
Sq == Function(n_sq, "int", <<Param(3, <<"x">>, "int", {})>>, {},
               <<ReturnStatement(Op(X, "*", X))>>, 3)
MSq == Main(<<DeclInt(2, <<"w">>, FunctionCall(n_sq, <<Op(IntLiteral(3), "+", A)>>, "int"))>>)
Add == Function(n_add, "void",
                <<Param(3, <<"r">>, "int", {"out"}), Param(3, <<"a">>, "int", {}),
                  Param(3, <<"b">>, "int", {})>>, {},
                <<Assign(WR, Op(GA, "+", Rd(3, <<"b">>, "int")))>>, 3)
MAdd == Main(<<ExpressionStatement(
                   FunctionCall(n_add, <<T, U, Rd(2, <<"v">>, "int")>>, "void"))>>)
Fact == Function(n_fact, "int", <<Param(3, <<"x">>, "int", {})>>, {},
                 <<ReturnStatement(
                       TernaryExpression(
                           Op(X, "<", IntLiteral(2)), IntLiteral(1),
                           Op(X, "*", FunctionCall(n_fact, <<Op(X, "+", IntLiteral(1))>>, "int")),
                           "int"))>>, 3)
MFact == Main(<<Assign(Y, FunctionCall(n_fact, <<A>>, "int"))>>)
\* a caller of a function that has no definition
MExtern == Main(<<Assign(Y, FunctionCall(n_g, <<A>>, "int"))>>)

\* ---- call cycles: p (table 3), q (table 4), r (table 7) ----
n_p == <<"p">>
n_q == <<"q">>
n_r == <<"r">>
Cyc(name, t, callee, twice) ==
    Function(name, "int", <<Param(t, <<"x">>, "int", {})>>, {},
             <<ReturnStatement(
                   IF twice
                   THEN Op(FunctionCall(callee, <<Rd(t, <<"x">>, "int")>>, "int"), "+",
                           FunctionCall(callee, <<IntLiteral(1)>>, "int"))
                   ELSE FunctionCall(callee, <<Rd(t, <<"x">>, "int")>>, "int"))>>, t)
MCyc == Main(<<Assign(Y, FunctionCall(n_p, <<A>>, "int"))>>)
\* a caller with two calls of q in one statement: the second waits for a later pass
MCycTwice == Main(<<Assign(Y, Op(FunctionCall(n_q, <<A>>, "int"), "+",
                                 FunctionCall(n_q, <<B>>, "int")))>>)
Cycles ==
    {<<Cyc(n_p, 3, n_q, FALSE), Cyc(n_q, 4, n_p, FALSE), MCyc>>,
     <<Cyc(n_p, 3, n_q, FALSE), Cyc(n_q, 4, n_p, FALSE), MCycTwice>>,
     <<Cyc(n_p, 3, n_q, TRUE), Cyc(n_q, 4, n_p, FALSE), MCyc>>,
     <<Cyc(n_p, 3, n_q, TRUE), Cyc(n_q, 4, n_p, TRUE), MCyc>>,
     <<Cyc(n_p, 3, n_q, FALSE), Cyc(n_q, 4, n_r, FALSE), Cyc(n_r, 7, n_p, FALSE), MCyc>>,
     <<Cyc(n_p, 3, n_q, FALSE), Cyc(n_q, 4, n_r, TRUE), Cyc(n_r, 7, n_p, FALSE), MCyc>>}

\* ---- call chains: main calls p, p (table 3) calls q, q (table 4) calls nothing ----
QLeaf == Function(n_q, "int", <<Param(4, <<"x">>, "int", {})>>, {},
                  <<ReturnStatement(Op(Rd(4, <<"x">>, "int"), "*", Rd(4, <<"x">>, "int")))>>, 4)
\* a call of p as the argument of a call of q
MNested2 ==
    Main(<<Assign(Y, FunctionCall(n_q,
                      <<FunctionCall(n_p,
                          <<Op(Op(Op(A, "+", IntLiteral(1)), "+", IntLiteral(1)), "+",
                               IntLiteral(1))>>, "int")>>, "int"))>>)
\* p returns early and calls q; main calls p once and q twice in one statement
PEarly == Function(n_p, "int", <<Param(3, <<"x">>, "int", {})>>, {},
                   <<IfStatement(Op(Rd(3, <<"x">>, "int"), "<", IntLiteral(0)),
                                 ReturnStatement(IntLiteral(0)), NullNode),
                     ReturnStatement(FunctionCall(n_q, <<Rd(3, <<"x">>, "int")>>, "int"))>>, 3)
MThree == Main(<<Assign(Y, Op(Op(FunctionCall(n_p, <<A>>, "int"), "+",
                                 FunctionCall(n_q, <<B>>, "int")), "+",
                              FunctionCall(n_q, <<A>>, "int")))>>)
\* r (table 7) calls nothing; main calls r twice and p as an argument of r
RLeaf == Function(n_r, "int", <<Param(7, <<"x">>, "int", {})>>, {},
                  <<ReturnStatement(Op(Rd(7, <<"x">>, "int"), "+", IntLiteral(1)))>>, 7)
MLapse == Main(<<Assign(Y, Op(FunctionCall(n_r, <<A>>, "int"), "+",
                              FunctionCall(n_r, <<FunctionCall(n_p, <<B>>, "int")>>, "int")))>>)
\* main calls p in two statements; p calls q and grows when q is inlined into it
MTwoP == Main(<<Assign(Y, FunctionCall(n_p, <<A>>, "int")),
                Assign(Y, FunctionCall(n_p, <<B>>, "int"))>>)
\* p returns from inside a loop and calls q there
PLoop == Function(n_p, "int", <<Param(3, <<"x">>, "int", {})>>, {},
                  <<WhileStatement(Op(Rd(3, <<"x">>, "int"), "<", IntLiteral(0)),
                                   Block(<<ReturnStatement(
                                               FunctionCall(n_q, <<Rd(3, <<"x">>, "int")>>,
                                                            "int"))>>, 0, TRUE)),
                    ReturnStatement(Rd(3, <<"x">>, "int"))>>, 3)
\* p returns early, outside of its loop
PEarlyLoop == Function(n_p, "int", <<Param(3, <<"x">>, "int", {})>>, {},
                       <<IfStatement(Op(Rd(3, <<"x">>, "int"), "<", IntLiteral(0)),
                                     ReturnStatement(IntLiteral(0)), NullNode),
                         WhileStatement(Op(Rd(3, <<"x">>, "int"), "<", IntLiteral(3)),
                                        Block(<<Assign(WG, IntLiteral(1)), BreakStatement>>,
                                              0, TRUE)),
                         ReturnStatement(Rd(3, <<"x">>, "int"))>>, 3)
\* p declares a local, writes it and writes its parameter
PLocalWrite == Function(n_p, "int", <<Param(3, <<"x">>, "int", {})>>, {},
                        <<DeclInt(3, <<"y">>, Rd(3, <<"x">>, "int")),
                          Assign(Wr(3, <<"y">>, "int"),
                                 Op(Rd(3, <<"y">>, "int"), "+", IntLiteral(1))),
                          Assign(Wr(3, <<"x">>, "int"), Rd(3, <<"y">>, "int")),
                          ReturnStatement(Rd(3, <<"x">>, "int"))>>, 3)
\* main passes the global G to f, which assigns G before it reads its parameter
MGlobalArg == Main(<<Assign(Y, CallF(Rd(1, <<"G">>, "int")))>>)
Chains ==
    {<<PEarly, QLeaf, MThree>>,
     <<FGlobal, MGlobalArg>>,
     <<PLocalWrite, MCyc>>,
     <<PEarlyLoop, MCyc>>,
     <<PLoop, QLeaf, MCyc>>,
     <<Cyc(n_p, 3, n_q, FALSE), QLeaf, MTwoP>>,
     <<Cyc(n_p, 3, n_q, FALSE), Cyc(n_q, 4, n_p, FALSE), RLeaf, MLapse>>,
     <<Cyc(n_p, 3, n_q, FALSE), QLeaf, MCyc>>,
     <<MNested2, Cyc(n_p, 3, n_q, FALSE), QLeaf>>,
     <<Cyc(n_p, 3, n_q, FALSE), QLeaf, MNested2>>}

\* A program element that is not a function.
GlobalElement == [k |-> "GlobalVar", fName |-> <<"G">>]
GlobalVariables == {[name |-> <<"G">>, type |-> "int", flags |-> {}, storage |-> "global"]}

ProgramPool ==
    {<<GlobalElement, FVariants[i], H, MainsF[j]>> :
        i \in 1..Len(FVariants), j \in 1..Len(MainsF)}
    \cup {<<GlobalElement, GVariants[i], MainsG[j]>> :
        i \in 1..Len(GVariants), j \in 1..Len(MainsG)}
    \cup {<<GlobalElement, Sq, MSq>>, <<GlobalElement, Add, MAdd>>,
          <<GlobalElement, Fact, MFact>>, <<GlobalElement, MExtern>>}
    \cup {<<GlobalElement>> \o cyc : cyc \in Cycles \cup Chains}

TableParent == <<0, 1, 1, 1, 2, 2, 1>>
NumTables == Len(TableParent)

\* The Variables a parsed function leaves in table t: its parameters and the
\* variables its body declares.
RECURSIVE DeclaredIn(_, _)
DeclaredIn(n, t) ==
    (IF n.k = "VarDeclarations"
     THEN {[name |-> n.c[i].a.fVar.name, type |-> n.a.fBaseType, flags |-> {},
            storage |-> "local"] : i \in {j \in 1..Len(n.c) : n.c[j].a.fVar.table = t}}
     ELSE {})
    \cup UNION {DeclaredIn(n.c[i], t) : i \in 1..Len(n.c)}

ParsedVariables(element, t) ==
    IF element.k # "Function" THEN {}
    ELSE {[name |-> element.fParameters[i].var.name, type |-> element.fParameters[i].type,
           flags |-> element.fParameters[i].flags, storage |-> "parameter"] :
             i \in {j \in 1..Len(element.fParameters) : element.fParameters[j].var.table = t}}
         \cup DeclaredIn(element.fBody, t)

ParsedSymbols(elements) ==
    [t \in 1..NumTables |->
        LET owned == IF t = RootSymbols THEN GlobalVariables
                     ELSE UNION {ParsedVariables(elements[i], t) : i \in 1..Len(elements)}
        IN  [fParent |-> TableParent[t],
             names |-> {v.name : v \in owned}
                       \cup (IF t = RootSymbols
                             THEN {elements[i].fName : i \in 1..Len(elements)}
                             ELSE {}),
             owned |-> owned]]

\* FunctionDeclaration::fCallCount, as the parser counts it: the calls of fn.
RECURSIVE CallsIn(_, _)
RECURSIVE CallsInFrom(_, _, _)
CallsIn(n, fn) ==
    (IF n.k = "FunctionCall" /\ n.a.fFunction = fn THEN 1 ELSE 0) + CallsInFrom(n, fn, 1)
CallsInFrom(n, fn, i) ==
    IF i > Len(n.c) THEN 0 ELSE CallsIn(n.c[i], fn) + CallsInFrom(n, fn, i + 1)

RECURSIVE CallsInProgram(_, _, _)
CallsInProgram(elements, fn, i) ==
    IF i > Len(elements) THEN 0
    ELSE (IF elements[i].k = "Function" THEN CallsIn(elements[i].fBody, fn) ELSE 0)
         + CallsInProgram(elements, fn, i + 1)

ParsedProgram(elements) ==
    [i \in 1..Len(elements) |->
        IF elements[i].k = "Function"
        THEN [elements[i] EXCEPT !.fCallCount = CallsInProgram(elements, elements[i].fName, 1)]
        ELSE elements[i]]

\* Program::Settings as far as the inliner reads them.
SmallThreshold == 8
LargeThreshold == 50
SettingsPool ==
    {[valid |-> TRUE, fCaps |-> caps, fInlineThreshold |-> LargeThreshold] :
        caps \in {"null", "noDoLoops", "doLoops"}}
    \cup {[valid |-> TRUE, fCaps |-> "doLoops", fInlineThreshold |-> SmallThreshold]}

ArgumentOrders == {"ltr", "rtl"}

(***************************************************************************)
(* The state machine.                                                      *)
(***************************************************************************)
Init ==
    /\ \E elements \in ProgramPool :
          /\ program = ParsedProgram(elements)
          /\ programBefore = ParsedProgram(elements)
          /\ symbols = ParsedSymbols(elements)
    /\ fSettings = [valid |-> FALSE, fCaps |-> "null", fInlineThreshold |-> 0]
    /\ fInlineVarCounter = 0
    /\ passes = 0
    /\ madeChanges = "none"
    /\ candidates = <<>>
    /\ inlinableMap = << >>
    /\ rewrites = <<>>
    /\ history = <<>>

\* Inliner::reset, called once for a program before its first pass.
Reset ==
    /\ ~fSettings.valid
    /\ \E settings \in SettingsPool : fSettings' = settings
    /\ fInlineVarCounter' = 0
    /\ UNCHANGED <<program, programBefore, symbols, passes, madeChanges, candidates,
                   inlinableMap, rewrites, history>>

\* One call of Inliner::analyze; the pipeline calls it again while it returns true.
Analyze ==
    /\ fSettings.valid
    /\ madeChanges # "false"
    /\ passes < MaxPasses
    /\ \E ifOrder \in ArgumentOrders :
       \E r \in {analyze(program, symbols, fInlineVarCounter, fSettings, ifOrder)} :
          /\ program' = r.final.program
          /\ programBefore' = program
          /\ symbols' = r.final.symbols
          /\ fInlineVarCounter' = r.final.counter
          /\ madeChanges' = IF r.final.madeChanges THEN "true" ELSE "false"
          /\ candidates' = r.fInlineCandidates
          /\ inlinableMap' = r.inlinableMap
          /\ rewrites' = r.final.rewrites
          /\ history' = Append(history,
                               [program |-> program,
                                symbols |-> symbols,
                                fInlineVarCounter |-> fInlineVarCounter,
                                fInlineCandidates |-> r.fInlineCandidates,
                                inlinableMap |-> r.inlinableMap,
                                rewrites |-> r.final.rewrites,
                                done |-> r.final.done,
                                madeChanges |-> r.final.madeChanges])
    /\ passes' = passes + 1
    /\ UNCHANGED fSettings

Next == Reset \/ Analyze

Spec == Init /\ [][Next]_vars

TypeOK ==
    /\ passes \in 0..MaxPasses
    /\ madeChanges \in {"none", "true", "false"}
    /\ fInlineVarCounter \in Nat

(***************************************************************************)
(* Vocabulary of the properties.                                           *)
(***************************************************************************)
FunctionElements == {i \in 1..Len(program) : program[i].k = "Function"}
Rewrites == SeqToSet(rewrites)
CallPaths(root) == {p \in PathsOf(root) : NodeAt(root, p).k = "FunctionCall"}
ParentOf(root, path, i) == NodeAt(root, SubSeq(path, 1, i - 1))

\* The slot lies in the right operand of a && or || or in an arm of a ternary.
InElidedOperand(root, path) ==
    \E i \in 1..Len(path) :
        \/ /\ ParentOf(root, path, i).k = "Binary"
           /\ ParentOf(root, path, i).a.fOperator \in {"&&", "||"}
           /\ path[i] = 2
        \/ /\ ParentOf(root, path, i).k = "Ternary"
           /\ path[i] \in {2, 3}

\* The slot lies in the left operand of a && or || or in the test of a ternary.
InLeftOrTest(root, path) ==
    \E i \in 1..Len(path) :
        /\ path[i] = 1
        /\ \/ /\ ParentOf(root, path, i).k = "Binary"
              /\ ParentOf(root, path, i).a.fOperator \in {"&&", "||"}
           \/ ParentOf(root, path, i).k = "Ternary"

\* The slot lies in a loop test, a for-next, a switch-case value or the base of
\* a field access.
InUnvisitedSlot(root, path) ==
    \E i \in 1..Len(path) :
        <<ParentOf(root, path, i).k, path[i]>> \in
            {<<"While", 1>>, <<"Do", 2>>, <<"For", 2>>, <<"For", 3>>,
             <<"SwitchCase", 1>>, <<"FieldAccess", 1>>}

\* The candidates a pass started now would record in element e.
CandidatePaths(e) ==
    {c.fCandidateExpr : c \in {d \in SeqToSet(visitProgram(program, RootSymbols, 1)) :
                                  d.fElement = e}}

\* The verdict analyze would memoize for the callee of `call` on the current tree.
Inlinable(call) ==
    /\ isSafeToInline(program, fSettings, call,
                      IF CallCountOf(program, call.a.fFunction) > 1
                      THEN fSettings.fInlineThreshold ELSE INT_MAX)
    /\ ~contains_recursive_call(program, call.a.fFunction)

\* Some return of the body lies inside a switch, for, while or do.
ReturnInsideBreakable(root) ==
    \E p \in PathsOf(root) :
        /\ NodeAt(root, p).k = "Return"
        /\ \E i \in 1..Len(p) : ParentOf(root, p, i).k \in {"Switch", "For", "While", "Do"}

\* The body holds a call of fn or an inline marker of fn.
RefersToItself(root, fn) ==
    \E p \in PathsOf(root) :
        \/ NodeAt(root, p).k = "FunctionCall" /\ NodeAt(root, p).a.fFunction = fn
        \/ NodeAt(root, p).k = "InlineMarker" /\ NodeAt(root, p).a.fFuncDecl = fn

BodyBefore(fn) == programBefore[FindDefinition(programBefore, fn)].fBody

(***************************************************************************)
(* C1.  A call in the right operand of && or || or in an arm of a ternary  *)
(* is never recorded as a candidate and never replaced, in any pass; a     *)
(* call in the left operand or in the ternary test is a candidate.         *)
(***************************************************************************)
C1_ElidedOperandsKept ==
    /\ \A e \in FunctionElements :
         \A p \in CallPaths(program[e].fBody) :
            /\ InElidedOperand(program[e].fBody, p) => p \notin CandidatePaths(e)
            /\ ( /\ InLeftOrTest(program[e].fBody, p)
                 /\ ~InElidedOperand(program[e].fBody, p)
                 /\ ~InUnvisitedSlot(program[e].fBody, p) )
               => p \in CandidatePaths(e)
    /\ \A rw \in Rewrites :
         ~InElidedOperand(programBefore[rw.candidate.fElement].fBody,
                          rw.candidate.fCandidateExpr)

\* A pass replaced a call of a left operand or ternary test and left, in the
\* same function, a call in an elided operand whose callee is inlinable.
C1_Witness ==
    \E rw \in Rewrites :
        /\ InLeftOrTest(programBefore[rw.candidate.fElement].fBody,
                        rw.candidate.fCandidateExpr)
        /\ \E p \in CallPaths(program[rw.candidate.fElement].fBody) :
              /\ InElidedOperand(program[rw.candidate.fElement].fBody, p)
              /\ Inlinable(NodeAt(program[rw.candidate.fElement].fBody, p))

(***************************************************************************)
(* C2.  isSafeToInline is false for a callee with a return inside a        *)
(* switch, for, while or do, whatever the caps and the threshold, and no   *)
(* call of such a callee is ever rewritten.                                *)
(***************************************************************************)
AllCaps == {"null", "noDoLoops", "doLoops"}
AllThresholds == {SmallThreshold, LargeThreshold, INT_MAX}

C2_ReturnInBreakableRefused ==
    /\ \A e \in FunctionElements :
         ReturnInsideBreakable(program[e].fBody) =>
            \A caps \in AllCaps, threshold \in AllThresholds :
               ~isSafeToInline(program,
                               [valid |-> TRUE, fCaps |-> caps,
                                fInlineThreshold |-> threshold],
                               FunctionCall(program[e].fName, <<>>, program[e].fReturnType),
                               threshold)
    /\ \A rw \in Rewrites : ~ReturnInsideBreakable(rw.callee.fBody)

\* A pass with do loops available has run, made its rewrites and left a call
\* of a callee that returns from inside a breakable construct.
C2_Witness ==
    /\ passes >= 1
    /\ fSettings.fCaps = "doLoops"
    /\ \E e \in FunctionElements : \E p \in CandidatePaths(e) :
          LET fn == NodeAt(program[e].fBody, p).a.fFunction IN
          /\ FindDefinition(program, fn) # 0
          /\ ReturnInsideBreakable(program[FindDefinition(program, fn)].fBody)
          /\ ~contains_recursive_call(program, fn)

(***************************************************************************)
(* C3.  Without caps, or with caps that cannot use do loops, isSafeToInline*)
(* is false for a callee that has an early return, and no call of such a   *)
(* callee is rewritten.                                                    *)
(***************************************************************************)
C3_EarlyReturnRefusedWithoutDoLoops ==
    (fSettings.valid /\ fSettings.fCaps \in {"null", "noDoLoops"}) =>
        /\ \A e \in FunctionElements :
             has_early_return(program[e].fBody) =>
                \A threshold \in AllThresholds :
                   ~isSafeToInline(program, fSettings,
                                   FunctionCall(program[e].fName, <<>>, program[e].fReturnType),
                                   threshold)
        /\ \A rw \in Rewrites : ~has_early_return(rw.callee.fBody)

\* A pass without do loops has run and left a candidate whose callee has an
\* early return but no return inside a breakable construct.
C3_Witness ==
    /\ passes >= 1
    /\ fSettings.fCaps \in {"null", "noDoLoops"}
    /\ \E e \in FunctionElements : \E p \in CandidatePaths(e) :
          LET fn == NodeAt(program[e].fBody, p).a.fFunction IN
          /\ FindDefinition(program, fn) # 0
          /\ has_early_return(program[FindDefinition(program, fn)].fBody)
          /\ ~ReturnInsideBreakable(program[FindDefinition(program, fn)].fBody)

(***************************************************************************)
(* C4.  As stated: no call is rewritten whose callee is a member of a call *)
(* cycle (self-recursive or mutually recursive).                           *)
(* As amended: no call is rewritten whose callee's body held, when the     *)
(* pass started, a call of the callee itself or an inline marker of it.    *)
(***************************************************************************)
\* fn reaches target along the calls of the bodies of prog, in at most n steps.
RECURSIVE Reaches(_, _, _, _)
Reaches(prog, fn, target, n) ==
    /\ n > 0
    /\ FindDefinition(prog, fn) # 0
    /\ \E p \in CallPaths(prog[FindDefinition(prog, fn)].fBody) :
          LET callee == NodeAt(prog[FindDefinition(prog, fn)].fBody, p).a.fFunction IN
          callee = target \/ Reaches(prog, callee, target, n - 1)

InCallCycle(prog, fn) == Reaches(prog, fn, fn, Len(prog))

C4_NoCycleMemberInlined ==
    \A rw \in Rewrites : ~InCallCycle(programBefore, rw.call.a.fFunction)

C4_SelfReferentialNeverInlined ==
    \A rw \in Rewrites : ~RefersToItself(BodyBefore(rw.call.a.fFunction), rw.call.a.fFunction)

\* A pass has run on a program that calls a function whose body refers to
\* itself, and has rewritten another call.
C4_Witness ==
    /\ rewrites # <<>>
    /\ \E e \in FunctionElements :
          /\ RefersToItself(programBefore[e].fBody, programBefore[e].fName)
          /\ programBefore[e].fCallCount > 1

(***************************************************************************)
(* C5.  Repeated passes reach a pass that returns false, also for programs *)
(* with self-recursive functions and call cycles.                          *)
(***************************************************************************)
\* Analyze is enabled as long as the last pass returned true and fewer than
\* MaxPasses passes were made: the passes end before that bound is reached.
C5_ReachesFixpoint == passes = MaxPasses => madeChanges = "false"

\* The passes over a program with a call cycle have come to an end after
\* having inlined along the cycle.
C5_Witness ==
    /\ madeChanges = "false"
    /\ passes >= 3
    /\ \E e \in FunctionElements :
          /\ InCallCycle(program, program[e].fName)
          /\ CountKinds(program[e].fBody, {"InlineMarker"}) > 0

(***************************************************************************)
(* C6.  As stated: once a pass has returned false, no FunctionCall of the  *)
(* tree satisfies isSafeToInline under the configured threshold.           *)
(* As amended: once a pass has returned false, no call that the traversal  *)
(* records as a candidate and whose callee contains_recursive_call does    *)
(* not report satisfies isSafeToInline under the configured threshold.     *)
(***************************************************************************)
SafeUnderConfiguredThreshold(call) ==
    isSafeToInline(program, fSettings, call, fSettings.fInlineThreshold)

C6_NoSafeCallAtFixpoint ==
    madeChanges = "false" =>
        \A e \in FunctionElements : \A p \in CallPaths(program[e].fBody) :
            ~SafeUnderConfiguredThreshold(NodeAt(program[e].fBody, p))

C6_NoSafeCandidateAtFixpoint ==
    madeChanges = "false" =>
        \A e \in FunctionElements : \A p \in CandidatePaths(e) :
            LET call == NodeAt(program[e].fBody, p) IN
            ~(/\ SafeUnderConfiguredThreshold(call)
              /\ ~contains_recursive_call(program, call.a.fFunction))

\* The passes have ended after at least one rewrite, and the tree still holds a
\* candidate call (one that is not safe to inline, or is recursive).
C6_Witness ==
    /\ madeChanges = "false"
    /\ passes >= 2
    /\ \E e \in FunctionElements : CandidatePaths(e) # {}

(***************************************************************************)
(* Vocabulary of the properties of one rewrite rw.                         *)
(***************************************************************************)
ExtraStatements(rw) == rw.inlinedCall.fInlinedBody.c
\* The cloned body of the callee (a Block, or the do-while around it).
CodeIndex(rw) ==
    CHOOSE j \in 1..Len(ExtraStatements(rw)) : ExtraStatements(rw)[j].k \in {"Block", "Do"}
Code(rw) == ExtraStatements(rw)[CodeIndex(rw)]
ClonedBlock(rw) == IF Code(rw).k = "Do" THEN Code(rw).c[1] ELSE Code(rw)
ArgumentIndices(rw) == 1..Len(rw.call.c)
Parameter(rw, i) == rw.callee.fParameters[i]
BoundTo(rw, i) == rw.inlinedCall.varMap[Parameter(rw, i).var].var
\* The extra statements declare the variable v.
Declares(rw, v) ==
    \E j \in 1..Len(ExtraStatements(rw)) :
        /\ ExtraStatements(rw)[j].k = "VarDeclarations"
        /\ ExtraStatements(rw)[j].c[1].a.fVar = v
\* Parameter i is bound to the variable of the argument and nothing is declared.
BoundDirectly(rw, i) ==
    /\ rw.call.c[i].k = "VariableReference"
    /\ BoundTo(rw, i) = rw.call.c[i].a.fVariable
    /\ ~Declares(rw, BoundTo(rw, i))
\* Parameter i is bound to a temporary, declared with the argument as its value.
Materialized(rw, i) ==
    /\ BoundTo(rw, i) \notin {Parameter(rw, j).var : j \in ArgumentIndices(rw)}
    /\ \E j \in 1..(CodeIndex(rw) - 1) :
          /\ ExtraStatements(rw)[j].k = "VarDeclarations"
          /\ ExtraStatements(rw)[j].c[1].a.fVar = BoundTo(rw, i)
          /\ ExtraStatements(rw)[j].c[1].c[1] = rw.call.c[i]
\* Statement j of the extra statements is `argument i = the variable bound to i`.
IsCopyBack(rw, i, j) ==
    LET stmt == ExtraStatements(rw)[j] IN
    /\ stmt.k = "Expression"
    /\ stmt.c[1].k = "Binary"
    /\ stmt.c[1].a.fOperator = "="
    /\ stmt.c[1].c[1] = rw.call.c[i]
    /\ stmt.c[1].c[2].k = "VariableReference"
    /\ stmt.c[1].c[2].a.fVariable = BoundTo(rw, i)
CopyBacks(rw, i) == {j \in 1..Len(ExtraStatements(rw)) : IsCopyBack(rw, i, j)}

(***************************************************************************)
(* C7.  inlineCall binds a parameter directly to the variable of the       *)
(* argument, declaring no temporary, exactly when the argument is a plain  *)
(* variable reference, the parameter is not `out` and the callee body does *)
(* not write the parameter; otherwise it declares a temporary initialized  *)
(* from the argument and maps the parameter to it.                         *)
(***************************************************************************)
C7_PassThroughRule ==
    \A rw \in Rewrites : \A i \in ArgumentIndices(rw) :
        IF /\ rw.call.c[i].k = "VariableReference"
           /\ "out" \notin Parameter(rw, i).flags
           /\ ~StatementWritesToVariable(rw.callee.fBody, Parameter(rw, i).var)
        THEN BoundDirectly(rw, i)
        ELSE Materialized(rw, i)

(***************************************************************************)
(* C8.  As stated: add(t, u, v) with `out r` yields temporaries for r, a   *)
(* and b and the copy-back t = r-temporary; every materialized `out`       *)
(* parameter gets exactly one copy-back after the cloned body and a        *)
(* pass-through parameter none.                                            *)
(* As amended: add(t, u, v) declares no temporary for a and b, which are   *)
(* bound to u and v; r is bound to t as well, the body writes t and there  *)
(* is no copy-back; every materialized `out` parameter gets exactly one    *)
(* copy-back after the cloned body and a pass-through parameter none.      *)
(***************************************************************************)
CopyBackRule(rw) ==
    /\ \A i \in ArgumentIndices(rw) :
          /\ ("out" \in Parameter(rw, i).flags /\ Materialized(rw, i))
                => /\ Cardinality(CopyBacks(rw, i)) = 1
                   /\ \A j \in CopyBacks(rw, i) : j > CodeIndex(rw)
          /\ BoundDirectly(rw, i) => CopyBacks(rw, i) = {}
    /\ Len(ExtraStatements(rw)) - CodeIndex(rw)
          = Cardinality({i \in ArgumentIndices(rw) :
                            "out" \in Parameter(rw, i).flags /\ Materialized(rw, i)})

IsAddScenario(rw) == rw.call.a.fFunction = n_add /\ rw.call.c = <<T, U, Rd(2, <<"v">>, "int")>>

ReturnPaths(root) == {p \in PathsOf(root) : NodeAt(root, p).k = "Return"}

\* `lowered` is the assignment of a value to the result variable of rw.
IsResultAssignment(rw, lowered, value) ==
    /\ lowered.k = "Expression"
    /\ lowered.c[1].k = "Binary"
    /\ lowered.c[1].a.fOperator = "="
    /\ lowered.c[1].c[1] =
           VariableReference(rw.inlinedCall.resultVar, rw.callee.fReturnType, "write")
    /\ lowered.c[1].c[2].k = value.k
    /\ CountKinds(rw.callee.fBody, {"VarDeclaration"}) = 0
          => lowered.c[1].c[2] = inlineExpression(rw.inlinedCall.varMap, value)

LoweredAsTabulated(rw, p) ==
    LET return == NodeAt(rw.callee.fBody, p)
        lowered == NodeAt(ClonedBlock(rw), p)
        early == has_early_return(rw.callee.fBody)
    IN  IF ~IsNull(return.c[1])
        THEN IF early
             THEN /\ lowered.k = "Block"
                  /\ lowered.a.fIsScope
                  /\ Len(lowered.c) = 2
                  /\ IsResultAssignment(rw, lowered.c[1], return.c[1])
                  /\ lowered.c[2] = BreakStatement
             ELSE IsResultAssignment(rw, lowered, return.c[1])
        ELSE IF early THEN lowered = BreakStatement ELSE lowered = Nop

C9_ReturnsLowered ==
    \A rw \in Rewrites :
        /\ \A p \in ReturnPaths(rw.callee.fBody) : LoweredAsTabulated(rw, p)
        /\ (Code(rw).k = "Do") <=> has_early_return(rw.callee.fBody)
        /\ Code(rw).k = "Do" => Code(rw).c[2] = BoolLiteral(FALSE)
        /\ ~has_early_return(rw.callee.fBody) =>
              /\ CountKinds(Code(rw), {"Break"}) = CountKinds(rw.callee.fBody, {"Break"})
              /\ CountKinds(Code(rw), {"Do"}) = CountKinds(rw.callee.fBody, {"Do"})
        /\ CountKinds(rw.inlinedCall.fInlinedBody, {"Return"}) = 0
        /\ CountKinds(rw.block, {"Return"})
              = CountKinds(NodeAt(rw.block, <<Len(rw.block.c)>>), {"Return"})

\* A pass has inlined a callee that returns a value early.
C9_Witness ==
    \E rw \in Rewrites : \E p \in ReturnPaths(rw.callee.fBody) :
        /\ has_early_return(rw.callee.fBody)
        /\ ~IsNull(NodeAt(rw.callee.fBody, p).c[1])
        /\ Code(rw).k = "Do"
        /\ NodeAt(ClonedBlock(rw), p).k = "Block"

(***************************************************************************)
(* C10.  As stated: with a freshly reset inliner, inlining                 *)
(* `int w = sq(3+a);` for `int sq(int x){ return x*x; }` names the         *)
(* argument temporary _0_x and the result variable _1_sq, with the body    *)
(* { _1_sq = _0_x*_0_x; } and the call replaced by a reference to _1_sq.   *)
(* As amended: the result variable is named first, _0_sq, and the          *)
(* argument temporary _1_x; the body is { _0_sq = _1_x*_1_x; } and the     *)
(* call is replaced by a reference to _0_sq.                               *)
(***************************************************************************)
IsSqScenario(rw) ==
    /\ rw.counterBefore = 0
    /\ rw.call = FunctionCall(n_sq, <<Op(IntLiteral(3), "+", A)>>, "int")

\* The inlined call of the scenario with the given names.
SqInlinedAs(rw, argumentName, resultName) ==
    /\ BoundTo(rw, 1) = Var(2, argumentName)
    /\ rw.inlinedCall.resultVar = Var(2, resultName)
    /\ Materialized(rw, 1)
    /\ Declares(rw, Var(2, resultName))
    /\ Code(rw) =
          Block(<<Assign(Wr(2, resultName, "int"),
                         Op(Rd(2, argumentName, "int"), "*", Rd(2, argumentName, "int")))>>,
                0, TRUE)
    /\ rw.inlinedCall.fReplacementExpr = Rd(2, resultName, "int")

C10_ArgumentNamedFirst ==
    \A rw \in Rewrites :
        IsSqScenario(rw) =>
            SqInlinedAs(rw, <<"_", "0", "_", "x">>, <<"_", "1", "_", "s", "q">>)

C10_ResultNamedFirst ==
    \A rw \in Rewrites :
        IsSqScenario(rw) =>
            /\ SqInlinedAs(rw, <<"_", "1", "_", "x">>, <<"_", "0", "_", "s", "q">>)
            /\ ExtraStatements(rw) =
                  <<InlineMarker(n_sq),
                    DeclInt(2, <<"_", "0", "_", "s", "q">>, NullNode),
                    DeclInt(2, <<"_", "1", "_", "x">>, Op(IntLiteral(3), "+", A)),
                    Code(rw)>>
            /\ fInlineVarCounter >= 2

\* The first pass of a freshly reset inliner has inlined sq(3+a).
C10_Witness ==
    /\ passes = 1
    /\ \E rw \in Rewrites : IsSqScenario(rw) /\ rw.inlinedCall.hasResult

(***************************************************************************)
(* Vocabulary of the properties of the passes made so far.                 *)
(***************************************************************************)
Passes == 1..Len(history)
RewritesOf(k) == SeqToSet(history[k].rewrites)
\* The body of element e as pass k found it.
BodyAt(k, e) == history[k].program[e].fBody
\* The program as pass k left it.
ProgramAfter(k) == IF k = Len(history) THEN program ELSE history[k + 1].program
SymbolsAfter(k) == IF k = Len(history) THEN symbols ELSE history[k + 1].symbols
CounterAfter(k) ==
    IF k = Len(history) THEN fInlineVarCounter ELSE history[k + 1].fInlineVarCounter

(***************************************************************************)
(* C11.  Whenever the enclosing statement of a rewritten call is the body  *)
(* of an if, for, while or do statement, directly or through blocks        *)
(* without scope only, the block that replaces the enclosing statement is  *)
(* a scope.                                                                *)
(***************************************************************************)
BodySlots == {<<"If", 2>>, <<"If", 3>>, <<"For", 4>>, <<"While", 2>>, <<"Do", 1>>}

\* The statement at `path` is the body of a control-flow statement, directly or
\* through scopeless blocks only.
IsControlFlowBody(root, path) ==
    \E i \in 1..Len(path) :
        /\ <<ParentOf(root, path, i).k, path[i]>> \in BodySlots
        /\ \A j \in (i + 1)..Len(path) :
              /\ ParentOf(root, path, j).k = "Block"
              /\ ~ParentOf(root, path, j).a.fIsScope

C11_BodyReplacementIsScope ==
    \A k \in Passes : \A rw \in RewritesOf(k) :
        IsControlFlowBody(BodyAt(k, rw.candidate.fElement), rw.candidate.fEnclosingStmt)
            => /\ rw.block.k = "Block"
               /\ rw.block.a.fIsScope
               /\ rw.block.c[Len(rw.block.c)]
                     = NodeAt(rw.before[rw.candidate.fElement].fBody,
                              SlotPath(rw.candidate.fEnclosingStmt, rw.candidate.fElement,
                                       history[k].done, 1))

\* A pass has rewritten a call whose enclosing statement is a loop body reached
\* through a block without scope.
C11_Witness ==
    \E k \in Passes : \E rw \in RewritesOf(k) :
        LET root == BodyAt(k, rw.candidate.fElement)
            path == rw.candidate.fEnclosingStmt
        IN  /\ IsControlFlowBody(root, path)
            /\ ParentOf(root, path, Len(path)).k = "Block"
            /\ \E i \in 1..Len(path) : ParentOf(root, path, i).k \in {"Do", "While"}
            /\ rw.block.a.fIsScope

(***************************************************************************)
(* C12.  In analyze a callee whose callCount is at most 1 is judged with   *)
(* an infinite threshold: its verdict does not depend on its node count.   *)
(* A callee whose callCount is greater than 1 is accepted only if it       *)
(* carries the `inline` modifier or its node count is strictly less than   *)
(* the configured inlineThreshold; a node count equal to the threshold is  *)
(* refused.                                                                *)
(***************************************************************************)
\* The definition of fn in the program pass k found.
DefinitionAt(k, fn) == history[k].program[FindDefinition(history[k].program, fn)]

\* The size of fn does not stand in the way of inlining it.
SizeAllows(k, fn) ==
    \/ DefinitionAt(k, fn).fCallCount <= 1
    \/ "inline" \in DefinitionAt(k, fn).fModifiers
    \/ NodeCount(DefinitionAt(k, fn).fBody) < fSettings.fInlineThreshold

\* The checks of fn that do not look at its size.
OtherChecksAllow(k, fn) ==
    /\ isSafeToInline(history[k].program, fSettings,
                      FunctionCall(fn, <<>>, DefinitionAt(k, fn).fReturnType), INT_MAX)
    /\ ~RefersToItself(DefinitionAt(k, fn).fBody, fn)

C12_ThresholdOnlyForSharedCallees ==
    \A k \in Passes : \A fn \in DOMAIN history[k].inlinableMap :
        FindDefinition(history[k].program, fn) # 0 =>
            (history[k].inlinableMap[fn] <=> (SizeAllows(k, fn) /\ OtherChecksAllow(k, fn)))

\* A pass has refused, for its size alone, a callee with more than one call and
\* a node count equal to the threshold.
C12_Witness ==
    \E k \in Passes : \E fn \in DOMAIN history[k].inlinableMap :
        /\ FindDefinition(history[k].program, fn) # 0
        /\ DefinitionAt(k, fn).fCallCount > 1
        /\ NodeCount(DefinitionAt(k, fn).fBody) = fSettings.fInlineThreshold
        /\ OtherChecksAllow(k, fn)
        /\ ~history[k].inlinableMap[fn]

(***************************************************************************)
(* C13.  Every name returned by uniqueNameForInlineVar is absent from the  *)
(* receiving symbol table when it is returned, differs from every name     *)
(* returned earlier in the lifetime of the inliner (the counter only       *)
(* increases, across call sites and passes) and, the base names holding no *)
(* `__`, holds no `__` either.                                             *)
(***************************************************************************)
\* Every name uniqueNameForInlineVar returns names one declaration of the
\* inlined body: the declarations of rewrite i of pass k.
DeclarationPaths(k, i) ==
    {p \in PathsOf(history[k].rewrites[i].inlinedCall.fInlinedBody) :
        NodeAt(history[k].rewrites[i].inlinedCall.fInlinedBody, p).k = "VarDeclaration"}

\* The names returned so far, each as <<pass, rewrite, declaration>>.
Returned ==
    UNION {UNION {{<<k, i, p>> : p \in DeclarationPaths(k, i)} :
                     i \in 1..Len(history[k].rewrites)} : k \in Passes}

NameOf(r) == NodeAt(history[r[1]].rewrites[r[2]].inlinedCall.fInlinedBody, r[3]).a.fVar.name
ReceivingTable(r) == history[r[1]].rewrites[r[2]].candidate.fSymbols

HasDoubleUnderscore(name) ==
    \E j \in 1..(Len(name) - 1) : name[j] = "_" /\ name[j + 1] = "_"

\* The numeric prefix of a returned name: the digits behind its first character.
RECURSIVE NumberOf(_, _, _)
NumberOf(name, j, n) ==
    IF j > Len(name) \/ name[j] \notin SeqToSet(DigitChars) THEN n
    ELSE NumberOf(name, j + 1,
                  10 * n + ((CHOOSE d \in 1..10 : DigitChars[d] = name[j]) - 1))

C13_NamesUnique ==
    /\ \A r \in Returned :
          LET rw == history[r[1]].rewrites[r[2]] IN
          /\ ~Lookup(rw.symbolsBefore, ReceivingTable(r), NameOf(r))
          /\ NodeAt(rw.inlinedCall.fInlinedBody, r[3]).a.fVar.table = ReceivingTable(r)
          /\ ~HasDoubleUnderscore(NameOf(r))
          /\ NameOf(r)[1] = "_"
          /\ NumberOf(NameOf(r), 2, 0) \in rw.counterBefore..(rw.inlinedCall.counter - 1)
          /\ \A q \in Returned : q # r => NameOf(q) # NameOf(r)
    /\ \A k \in Passes :
          /\ history[k].fInlineVarCounter <= CounterAfter(k)
          /\ \A i \in 1..Len(history[k].rewrites) :
                /\ history[k].rewrites[i].counterBefore >= history[k].fInlineVarCounter
                /\ history[k].rewrites[i].inlinedCall.counter
                      >= history[k].rewrites[i].counterBefore
                          + Cardinality(DeclarationPaths(k, i))
                /\ i > 1 => history[k].rewrites[i].counterBefore
                               = history[k].rewrites[i - 1].inlinedCall.counter

\* Names have been returned in two passes, one of them for a base name that
\* starts with an underscore (a name returned before).
C13_Witness ==
    /\ \E q, r \in Returned : q[1] # r[1]
    /\ \E r \in Returned : Len(NameOf(r)) > 3 /\ NumberOf(NameOf(r), 2, 0) < 10
                           /\ NameOf(r)[3] = "_" /\ NameOf(r)[4] \in SeqToSet(DigitChars)

(***************************************************************************)
(* C14.  After any sequence of passes every VariableReference in the tree  *)
(* targets a variable owned by a symbol table that lexically encloses the  *)
(* position of the reference, the statements hoisted in front of a for or  *)
(* switch statement, whose call sat in the for initializer or the switch   *)
(* value, included.                                                        *)
(***************************************************************************)
\* The symbol tables that enclose the slot `path` of the body `root`: the root
\* table and the tables of the blocks, for and switch statements around it.
EnclosingTables(root, path) ==
    {RootSymbols}
    \cup {NodeAt(root, SubSeq(path, 1, i)).a.fSymbols :
             i \in {j \in 0..Len(path) :
                       /\ NodeAt(root, SubSeq(path, 1, j)).k \in {"Block", "For", "Switch"}
                       /\ NodeAt(root, SubSeq(path, 1, j)).a.fSymbols # 0}}

ReferencePaths(root) == {p \in PathsOf(root) : NodeAt(root, p).k = "VariableReference"}

\* The reference at `path` resolves in a table around it.
ResolvesLexically(root, path) ==
    LET v == NodeAt(root, path).a.fVariable IN
    /\ v.table \in EnclosingTables(root, path)
    /\ \E o \in symbols[v.table].owned : o.name = v.name

C14_ReferencesResolveLexically ==
    \A e \in FunctionElements :
        \A p \in ReferencePaths(program[e].fBody) : ResolvesLexically(program[e].fBody, p)

(***************************************************************************)
(* C15.  As stated: starting from a program without inline markers, after  *)
(* any sequence of passes the number of InlineMarker statements in the     *)
(* tree equals the number of calls that were inlined.                      *)
(* As amended: every inlined call adds one InlineMarker of its callee in   *)
(* front of the inlined body and a copy of every InlineMarker the body of  *)
(* the callee holds at that moment; the number of markers in the tree is   *)
(* the number of calls inlined plus the number of markers so copied.       *)
(***************************************************************************)
RECURSIVE MarkersIn(_, _)
\* The InlineMarker statements of the elements of prog from i on.
MarkersIn(prog, i) ==
    IF i > Len(prog) THEN 0
    ELSE (IF prog[i].k = "Function" THEN CountKinds(prog[i].fBody, {"InlineMarker"}) ELSE 0)
         + MarkersIn(prog, i + 1)

RECURSIVE CallsInlined(_)
\* The calls the passes from k on have inlined.
CallsInlined(k) ==
    IF k > Len(history) THEN 0 ELSE Len(history[k].rewrites) + CallsInlined(k + 1)

RECURSIVE MarkersCopied(_, _)
\* The markers the rewrites from rewrite i of pass k on have copied out of the
\* bodies of their callees.
MarkersCopied(k, i) ==
    IF k > Len(history) THEN 0
    ELSE IF i > Len(history[k].rewrites) THEN MarkersCopied(k + 1, 1)
    ELSE CountKinds(history[k].rewrites[i].callee.fBody, {"InlineMarker"})
         + MarkersCopied(k, i + 1)

C15_MarkersEqualInlinedCalls ==
    MarkersIn(program, 1) = CallsInlined(1)

C15_MarkersCountCopies ==
    /\ Len(history) > 0 => MarkersIn(history[1].program, 1) = 0
    /\ MarkersIn(program, 1) = CallsInlined(1) + MarkersCopied(1, 1)
    /\ \A k \in Passes : \A rw \in RewritesOf(k) :
          /\ ExtraStatements(rw)[1].k = "InlineMarker"
          /\ ExtraStatements(rw)[1].a.fFuncDecl = rw.call.a.fFunction
          /\ MarkersIn(rw.after, 1)
                = MarkersIn(rw.before, 1) + 1 + CountKinds(rw.callee.fBody, {"InlineMarker"})

\* A pass has inlined a callee whose body held a marker and no call cycle is
\* involved: the callee calls nothing any more.
C15_Witness ==
    \E k \in Passes : \E rw \in RewritesOf(k) :
        /\ CountKinds(rw.callee.fBody, {"InlineMarker"}) > 0
        /\ CountKinds(rw.callee.fBody, {"FunctionCall"}) = 0
        /\ MarkersIn(program, 1) > CallsInlined(1)

(***************************************************************************)
(* C16.  analyze returns true if and only if at least one call expression  *)
(* was replaced during the pass; when it returns false the program tree,   *)
(* every symbol table and the name counter are as they were before it.     *)
(***************************************************************************)
\* The calls of the program, counted over all function bodies.
RECURSIVE CallsOf(_, _)
CallsOf(prog, i) ==
    IF i > Len(prog) THEN 0
    ELSE (IF prog[i].k = "Function" THEN CountKinds(prog[i].fBody, {"FunctionCall"}) ELSE 0)
         + CallsOf(prog, i + 1)

C16_ReturnsTrueIffReplaced ==
    /\ \A k \in Passes :
          /\ history[k].madeChanges <=> history[k].rewrites # <<>>
          /\ history[k].madeChanges <=> ProgramAfter(k) # history[k].program
          /\ ~history[k].madeChanges =>
                /\ ProgramAfter(k) = history[k].program
                /\ SymbolsAfter(k) = history[k].symbols
                /\ CounterAfter(k) = history[k].fInlineVarCounter
          /\ \A rw \in RewritesOf(k) :
                \* the call is gone: what is left are the calls cloned from the callee
                CallsOf(rw.after, 1)
                    = CallsOf(rw.before, 1) - 1 + CountKinds(rw.callee.fBody, {"FunctionCall"})
    /\ madeChanges = "true" <=> (Len(history) > 0 /\ history[Len(history)].madeChanges)
    /\ madeChanges = "false" <=> (Len(history) > 0 /\ ~history[Len(history)].madeChanges)

\* A pass that found candidates, none of them inlinable, has returned false,
\* after a pass that returned true.
C16_Witness ==
    /\ Len(history) >= 2
    /\ history[1].madeChanges
    /\ ~history[Len(history)].madeChanges
    /\ history[Len(history)].fInlineCandidates # <<>>

(***************************************************************************)
(* C17.  Rewriting a call site inside function G changes only the body of  *)
(* G and the symbol table recorded for the call site: the body of the      *)
(* callee's definition is left as it was (a clone is inserted), no         *)
(* function declaration (name, return type, parameters, modifiers,         *)
(* callCount) is modified and no program element is added or removed, also *)
(* when a function has no call site left.                                  *)
(***************************************************************************)
\* The declaration of a program element: everything but the body.
DeclarationOf(element) ==
    IF element.k = "Function" THEN [element EXCEPT !.fBody = NullNode] ELSE element

\* No call of fn is left in the program.
Uncalled(prog, fn) == CallsInProgram(prog, fn, 1) = 0

C17_RewriteTouchesCallerOnly ==
    /\ \A k \in Passes : \A rw \in RewritesOf(k) :
          LET caller == rw.candidate.fElement
              calleeIndex == FindDefinition(rw.before, rw.call.a.fFunction)
          IN  /\ Len(rw.after) = Len(rw.before)
              /\ \A e \in 1..Len(rw.before) :
                    /\ DeclarationOf(rw.after[e]) = DeclarationOf(rw.before[e])
                    /\ e # caller => rw.after[e] = rw.before[e]
              /\ rw.after[caller].fBody # rw.before[caller].fBody
              /\ calleeIndex # caller
              /\ rw.after[calleeIndex].fBody = rw.callee.fBody
              /\ \A t \in 1..NumTables :
                    t # rw.candidate.fSymbols
                        => rw.inlinedCall.symbols[t] = rw.symbolsBefore[t]
              /\ rw.inlinedCall.symbols[rw.candidate.fSymbols].fParent
                    = rw.symbolsBefore[rw.candidate.fSymbols].fParent
    /\ \A k \in Passes :
          /\ Len(ProgramAfter(k)) = Len(history[k].program)
          /\ \A e \in 1..Len(history[k].program) :
                /\ DeclarationOf(ProgramAfter(k)[e]) = DeclarationOf(history[k].program[e])
                /\ (\A rw \in RewritesOf(k) : rw.candidate.fElement # e)
                      => ProgramAfter(k)[e] = history[k].program[e]

\* The passes have inlined every call of a function, whose definition is still a
\* program element with the body it had, and the rewrite added variables to
\* the table of its call site.
C17_Witness ==
    \E k \in Passes : \E rw \in RewritesOf(k) :
        /\ Uncalled(program, rw.call.a.fFunction)
        /\ program[FindDefinition(program, rw.call.a.fFunction)].fBody = rw.callee.fBody
        /\ rw.inlinedCall.symbols[rw.candidate.fSymbols]
              # rw.symbolsBefore[rw.candidate.fSymbols]

(***************************************************************************)
(* C18.  Under unchanged settings a candidate call that pass k refuses as  *)
(* not inlinable (unsafe, over the threshold or recursive) is refused      *)
(* again in pass k+1, unless an inlining made in the meantime changed the  *)
(* body of its callee.                                                     *)
(***************************************************************************)
\* The callees of the candidates pass k refused.
RefusedIn(k) == {fn \in DOMAIN history[k].inlinableMap : ~history[k].inlinableMap[fn]}

\* The definition of fn is the same for pass k and for pass k + 1.
CalleeUnchanged(k, fn) ==
    \/ FindDefinition(history[k].program, fn) = 0
    \/ DefinitionAt(k, fn) = DefinitionAt(k + 1, fn)

\* The candidates of pass k that call fn.
CandidatesCalling(k, fn) ==
    {i \in 1..Len(history[k].fInlineCandidates) :
        NodeAt(BodyAt(k, history[k].fInlineCandidates[i].fElement),
               history[k].fInlineCandidates[i].fCandidateExpr).a.fFunction = fn}

\* The candidates that pass k rewrote, as indices of its candidate list.
RewrittenIn(k) ==
    {i \in 1..Len(history[k].fInlineCandidates) :
        \E rw \in RewritesOf(k) : rw.candidate = history[k].fInlineCandidates[i]}

C18_RefusedStaysRefused ==
    \A k \in Passes : \A fn \in RefusedIn(k) :
        /\ CandidatesCalling(k, fn) # {}
        /\ CandidatesCalling(k, fn) \cap RewrittenIn(k) = {}
        /\ (k < Len(history) /\ CalleeUnchanged(k, fn)) =>
              /\ fn \in RefusedIn(k + 1)
              /\ Cardinality(CandidatesCalling(k + 1, fn))
                    >= Cardinality(CandidatesCalling(k, fn))

\* A pass that inlined other calls has refused a callee, and the next pass has
\* refused it again, its body unchanged.
C18_Witness ==
    \E k \in Passes : \E fn \in RefusedIn(k) :
        /\ k < Len(history)
        /\ FindDefinition(history[k].program, fn) # 0
        /\ CalleeUnchanged(k, fn)
        /\ fn \in RefusedIn(k + 1)
        /\ history[k].madeChanges

(***************************************************************************)
(* C19.  Within one pass at most one candidate per enclosing-statement     *)
(* slot is rewritten: the first inlinable candidate of the slot in         *)
(* candidate order (a candidate that is not inlinable does not reserve the *)
(* slot).  Every later candidate of the slot is left as it is in this pass *)
(* and is a candidate of the next pass, which rewrites it if it is still   *)
(* inlinable and first in its slot.                                        *)
(***************************************************************************)
CandidateIndices(k) == 1..Len(history[k].fInlineCandidates)
CandidateOf(k, i) == history[k].fInlineCandidates[i]
CalleeOf(k, i) ==
    NodeAt(BodyAt(k, CandidateOf(k, i).fElement), CandidateOf(k, i).fCandidateExpr).a.fFunction
SlotOf(k, i) == <<CandidateOf(k, i).fElement, CandidateOf(k, i).fEnclosingStmt>>
InlinableIn(k, i) == history[k].inlinableMap[CalleeOf(k, i)]

FirstInlinableOfSlot(k, i) ==
    /\ InlinableIn(k, i)
    /\ \A j \in 1..(i - 1) : SlotOf(k, j) = SlotOf(k, i) => ~InlinableIn(k, j)

\* Inlinable, but behind another inlinable candidate of its slot.
SkippedIn(k, i) == InlinableIn(k, i) /\ ~FirstInlinableOfSlot(k, i)

\* Where the call of candidate i of pass k is once the pass is over.
PathAfter(k, i) ==
    SlotPath(CandidateOf(k, i).fCandidateExpr, CandidateOf(k, i).fElement, history[k].done, 1)

C19_OneRewritePerSlot ==
    \A k \in Passes :
        /\ RewrittenIn(k) = {i \in CandidateIndices(k) : FirstInlinableOfSlot(k, i)}
        /\ Len(history[k].rewrites) = Cardinality(RewrittenIn(k))
        /\ \A m, n \in 1..Len(history[k].rewrites) :
              m < n => \E i, j \in CandidateIndices(k) :
                          /\ i < j
                          /\ CandidateOf(k, i) = history[k].rewrites[m].candidate
                          /\ CandidateOf(k, j) = history[k].rewrites[n].candidate
        /\ \A i \in CandidateIndices(k) :
              SkippedIn(k, i) =>
                 LET call == NodeAt(ProgramAfter(k)[CandidateOf(k, i).fElement].fBody,
                                    PathAfter(k, i))
                 IN  /\ call.k = "FunctionCall"
                     /\ call.a.fFunction = CalleeOf(k, i)
                     /\ history[k].madeChanges
                     /\ k < Len(history) =>
                           \E j \in CandidateIndices(k + 1) :
                              /\ CandidateOf(k + 1, j).fElement = CandidateOf(k, i).fElement
                              /\ CandidateOf(k + 1, j).fCandidateExpr = PathAfter(k, i)

\* A pass has passed over a candidate that is not inlinable, rewritten the next
\* candidate of the same slot and skipped a third, which the next pass rewrote.
C19_Witness ==
    \E k \in Passes : \E h, i, j \in CandidateIndices(k) :
        /\ h < i /\ i < j
        /\ SlotOf(k, h) = SlotOf(k, i) /\ SlotOf(k, i) = SlotOf(k, j)
        /\ ~InlinableIn(k, h)
        /\ i \in RewrittenIn(k)
        /\ SkippedIn(k, j)
        /\ k < Len(history)
        /\ \E n \in RewrittenIn(k + 1) :
              /\ CandidateOf(k + 1, n).fElement = CandidateOf(k, j).fElement
              /\ CandidateOf(k + 1, n).fCandidateExpr = PathAfter(k, j)

(***************************************************************************)
(* C20.  For a nested call f(g(x)) whose callees are both inlinable, the   *)
(* candidate for g precedes the candidate for f in candidate order, g is   *)
(* rewritten in a pass strictly earlier than the pass that rewrites f, and *)
(* f is never rewritten while its argument still holds the call of g that  *)
(* is to be inlined.  Inlinable is the verdict of the pass at hand.        *)
(***************************************************************************)
\* Candidate i of pass k lies in the arguments of candidate j.
NestedIn(k, i, j) ==
    /\ CandidateOf(k, i).fElement = CandidateOf(k, j).fElement
    /\ IsProperPrefix(CandidateOf(k, j).fCandidateExpr, CandidateOf(k, i).fCandidateExpr)

\* The rewrite pass k made of its candidate i.
RewriteOf(k, i) == CHOOSE rw \in RewritesOf(k) : rw.candidate = CandidateOf(k, i)

\* The place of the inner call i relative to the outer call j.
ArgumentPath(k, i, j) ==
    SubSeq(CandidateOf(k, i).fCandidateExpr,
           Len(CandidateOf(k, j).fCandidateExpr) + 1, Len(CandidateOf(k, i).fCandidateExpr))

TestSlots == {<<"While", 1>>, <<"Do", 2>>, <<"For", 2>>, <<"For", 3>>, <<"SwitchCase", 1>>}
VisitedSlots ==
    {<<"While", 2>>, <<"Do", 1>>, <<"For", 4>>, <<"For", 1>>, <<"If", 1>>, <<"Switch", 1>>}

InSlotOf(root, path, slots) ==
    \E i \in 1..Len(path) : <<ParentOf(root, path, i).k, path[i]>> \in slots

\* The calls of a body that lie in a test slot, counted.
CallsInTestSlots(root) ==
    Cardinality({p \in CallPaths(root) : InSlotOf(root, p, TestSlots)})

CandidatePathsIn(k, e) ==
    {c.fCandidateExpr : c \in {d \in SeqToSet(history[k].fInlineCandidates) : d.fElement = e}}

C21_TestCallsNeverCandidates ==
    \A k \in Passes :
        /\ \A e \in FunctionElements :
             /\ \A p \in CallPaths(BodyAt(k, e)) :
                  /\ InSlotOf(BodyAt(k, e), p, TestSlots) => p \notin CandidatePathsIn(k, e)
                  /\ ( /\ InSlotOf(BodyAt(k, e), p, VisitedSlots)
                       /\ ~InElidedOperand(BodyAt(k, e), p)
                       /\ ~InUnvisitedSlot(BodyAt(k, e), p) )
                     => p \in CandidatePathsIn(k, e)
             \* no pass takes a call out of a test slot
             /\ CallsInTestSlots(ProgramAfter(k)[e].fBody) >= CallsInTestSlots(BodyAt(k, e))
        /\ \A rw \in RewritesOf(k) :
             ~InSlotOf(BodyAt(k, rw.candidate.fElement), rw.candidate.fCandidateExpr, TestSlots)

\* The passes have come to an end; one of them replaced a call of a loop body,
\* a for initializer, an if test or a switch value, and the function still has
\* a call in a test slot whose callee is inlinable.
C21_Witness ==
    /\ madeChanges = "false"
    /\ \E k \in Passes : \E rw \in RewritesOf(k) :
          /\ InSlotOf(BodyAt(k, rw.candidate.fElement), rw.candidate.fCandidateExpr, VisitedSlots)
          /\ \E p \in CallPaths(program[rw.candidate.fElement].fBody) :
                /\ InSlotOf(program[rw.candidate.fElement].fBody, p, TestSlots)
                /\ Inlinable(NodeAt(program[rw.candidate.fElement].fBody, p))

(***************************************************************************)
(* C22.  The block that takes the place of the enclosing statement of a    *)
(* rewritten call holds, in this order: the inline marker of the callee,   *)
(* the declaration of the result variable (callee not void), the argument  *)
(* temporaries in argument order, the cloned body (a block, or the         *)
(* do-while around it), the copy-backs of the out parameters, and last the *)
(* enclosing statement itself, once, with the call replaced by a reference *)
(* to the result variable (by `false` for a void callee).                  *)
(***************************************************************************)
RewriteIndices(k) == 1..Len(history[k].rewrites)
MaterializedBefore(rw, i) == {j \in ArgumentIndices(rw) : j < i /\ Materialized(rw, j)}
CopiedBack(rw, i) == "out" \in Parameter(rw, i).flags /\ Materialized(rw, i)
CopiedBackBefore(rw, i) == {j \in ArgumentIndices(rw) : j < i /\ CopiedBack(rw, j)}
IsVoid(rw) == rw.callee.fReturnType = "void"
\* The place of the first argument temporary among the extra statements.
FirstTemporary(rw) == IF IsVoid(rw) THEN 2 ELSE 3
ExpectedReplacement(rw) ==
    IF IsVoid(rw) THEN BoolLiteral(FALSE)
    ELSE VariableReference(rw.inlinedCall.resultVar, rw.callee.fReturnType, "read")

\* The extra statements of rw are laid out as the claim says.
ExtraStatementsInOrder(rw) ==
    /\ ExtraStatements(rw)[1] = InlineMarker(rw.call.a.fFunction)
    /\ ~IsVoid(rw) =>
          ExtraStatements(rw)[2] =
              VarDeclarationsStatement(rw.callee.fReturnType,
                                       <<VarDeclaration(rw.inlinedCall.resultVar, NullNode)>>)
    /\ \A i \in ArgumentIndices(rw) :
          Materialized(rw, i) =>
              With(ExtraStatements(rw)[FirstTemporary(rw)
                                       + Cardinality(MaterializedBefore(rw, i))], LAMBDA decl :
                  /\ decl.k = "VarDeclarations"
                  /\ Len(decl.c) = 1
                  /\ decl.c[1].a.fVar = BoundTo(rw, i)
                  /\ decl.c[1].c[1] = rw.call.c[i])
    /\ CodeIndex(rw) = FirstTemporary(rw)
                       + Cardinality({i \in ArgumentIndices(rw) : Materialized(rw, i)})
    /\ IF has_early_return(rw.callee.fBody)
       THEN /\ Code(rw).k = "Do"
            /\ Code(rw).c[1].k = "Block"
            /\ Code(rw).c[2] = BoolLiteral(FALSE)
       ELSE Code(rw).k = "Block"
    /\ Len(ClonedBlock(rw).c) = Len(rw.callee.fBody.c)
    /\ \A i \in ArgumentIndices(rw) :
          CopiedBack(rw, i) =>
              IsCopyBack(rw, i, CodeIndex(rw) + 1 + Cardinality(CopiedBackBefore(rw, i)))
    /\ Len(ExtraStatements(rw))
          = CodeIndex(rw) + Cardinality({i \in ArgumentIndices(rw) : CopiedBack(rw, i)})

\* The block of rewrite i of pass k ends with the enclosing statement, and the
\* tree after the rewrite holds the block with the call replaced.
EnclosingStatementLast(k, i) ==
    With(history[k].rewrites[i], LAMBDA rw :
    With(history[k].done[i], LAMBDA d :
    With(NodeAt(rw.before[d.fElement].fBody, d.path), LAMBDA original :
        /\ d.fElement = rw.candidate.fElement
        /\ rw.block.k = "Block"
        /\ rw.block.c = ExtraStatements(rw) \o <<original>>
        /\ d.n = Len(ExtraStatements(rw)) + 1
        /\ \E q \in CallPaths(original) :
              /\ NodeAt(original, q) = rw.call
              /\ NodeAt(rw.after[d.fElement].fBody, d.path) =
                    [rw.block EXCEPT
                        !.c[d.n] = ReplaceAt(original, q, ExpectedReplacement(rw))]
        /\ rw.inlinedCall.fReplacementExpr = ExpectedReplacement(rw))))

C22_BlockLayout ==
    \A k \in Passes : \A i \in RewriteIndices(k) :
        /\ ExtraStatementsInOrder(history[k].rewrites[i])
        /\ EnclosingStatementLast(k, i)

\* A pass has replaced a call of a void callee with two temporaries, one of them
\* for an out parameter, and so with a copy-back after the cloned body.
C22_Witness ==
    \E k \in Passes : \E i \in RewriteIndices(k) :
        With(history[k].rewrites[i], LAMBDA rw :
            /\ IsVoid(rw)
            /\ Cardinality({j \in ArgumentIndices(rw) : Materialized(rw, j)}) = 2
            /\ \E j \in ArgumentIndices(rw) : CopiedBack(rw, j)
            /\ Len(rw.block.c) = 6)

(***************************************************************************)
(* C23.  A temporary that inlineCall declares for an argument has the type *)
(* of the argument expression and the modifiers of the parameter it stands *)
(* for.                                                                    *)
(***************************************************************************)
\* The Variable object of the temporary of parameter i, as inlineCall left it.
TemporaryOf(rw, i) == VariableOf(rw.inlinedCall.symbols, BoundTo(rw, i))

C23_TemporaryHasParameterModifiers ==
    \A k \in Passes : \A rw \in RewritesOf(k) : \A i \in ArgumentIndices(rw) :
        Materialized(rw, i) =>
            /\ TemporaryOf(rw, i).type = rw.call.c[i].a.type
            /\ TemporaryOf(rw, i).flags = Parameter(rw, i).flags

(***************************************************************************)
(* C24.  When analyze replaces a call, contains_recursive_call on the tree *)
(* as it is at that moment reports the callee as not recursive and the     *)
(* callee satisfies isSafeToInline under its threshold: the verdict        *)
(* memoized when the pass began is not made stale by the rewrites the pass *)
(* has made before.                                                        *)
(***************************************************************************)
\* The threshold analyze selects for fn in the program prog.
ThresholdOf(prog, fn) ==
    IF CallCountOf(prog, fn) > 1 THEN fSettings.fInlineThreshold ELSE INT_MAX

\* The verdict analyze would compute for the callee of rw on the tree that rw found.
VerdictAtRewrite(rw) ==
    /\ isSafeToInline(rw.before, fSettings, rw.call, ThresholdOf(rw.before, rw.call.a.fFunction))
    /\ ~contains_recursive_call(rw.before, rw.call.a.fFunction)

C24_VerdictNeverStale ==
    \A k \in Passes : \A rw \in RewritesOf(k) :
        /\ history[k].inlinableMap[rw.call.a.fFunction]
        /\ VerdictAtRewrite(rw)

(***************************************************************************)
(* C25.  For every function body, the parsed ones and the ones earlier     *)
(* rewrites have changed, a return inside a switch, for, while or do       *)
(* implies has_early_return; so neither assertion of isSafeToInline fails. *)
(***************************************************************************)
\* SkASSERT(hasEarlyReturn || count_returns_in_breakable_constructs(functionDef) == 0)
\* and SkASSERT(!hasReturnInBreakableConstruct || has_early_return(functionDef)).
AssertionsOfIsSafeToInline(body) ==
    /\ has_early_return(body) \/ count_returns_in_breakable_constructs(body) = 0
    /\ ~(count_returns_in_breakable_constructs(body) > 0) \/ has_early_return(body)

C25_BreakableReturnIsEarly ==
    /\ \A e \in FunctionElements : AssertionsOfIsSafeToInline(program[e].fBody)
    /\ \A k \in Passes : \A rw \in RewritesOf(k) : \A e \in FunctionElements :
          /\ AssertionsOfIsSafeToInline(rw.before[e].fBody)
          /\ AssertionsOfIsSafeToInline(rw.after[e].fBody)

\* A pass has inlined a call into a function that returns from inside a loop,
\* and the function is the callee of a call that is still there.
C25_Witness ==
    \E k \in Passes : \E rw \in RewritesOf(k) :
        With(rw.after[rw.candidate.fElement], LAMBDA caller :
            /\ count_returns_in_breakable_constructs(caller.fBody) > 0
            /\ has_early_return(caller.fBody)
            /\ CallsInProgram(program, caller.fName, 1) > 0)

(***************************************************************************)
(* C26.  In every body that analyze inlines, a break that stands for a     *)
(* return of the callee has the do { } while (false) around the cloned     *)
(* body as its innermost enclosing switch or loop; a body that is not      *)
(* wrapped holds no such break.                                            *)
(***************************************************************************)
\* What took the place of the return at path p of the callee of rw.
LoweredAt(rw, p) == NodeAt(ClonedBlock(rw), p)

\* The lowering of the return at p ends in a break.
EndsInBreak(rw, p) ==
    \/ LoweredAt(rw, p) = BreakStatement
    \/ /\ LoweredAt(rw, p).k = "Block"
       /\ Len(LoweredAt(rw, p).c) = 2
       /\ LoweredAt(rw, p).c[2] = BreakStatement

\* The statements of the cloned body that enclose the slot at path p.
EnclosingKinds(rw, p) == {NodeAt(ClonedBlock(rw), SubSeq(p, 1, i - 1)).k : i \in 1..Len(p)}

C26_BreakLeavesWrapper ==
    \A k \in Passes : \A rw \in RewritesOf(k) : \A p \in ReturnPaths(rw.callee.fBody) :
        /\ EndsInBreak(rw, p) =>
              /\ Code(rw).k = "Do"
              /\ EnclosingKinds(rw, p) \cap BreakableKinds = {}
        /\ Code(rw).k # "Do" => CountKinds(LoweredAt(rw, p), {"Break"}) = 0

\* A pass has inlined a callee that returns early and holds a loop of its own:
\* the returns became breaks next to that loop, inside the wrapper.
C26_Witness ==
    \E k \in Passes : \E rw \in RewritesOf(k) :
        /\ Code(rw).k = "Do"
        /\ CountKinds(rw.callee.fBody, BreakableKinds) > 0
        /\ \E p \in ReturnPaths(rw.callee.fBody) : EndsInBreak(rw, p)

(***************************************************************************)
(* C27.  Within one pass, when a candidate is rewritten its call slot      *)
(* still holds the FunctionCall that the traversal recorded and its        *)
(* enclosing-statement slot still holds the statement recorded for it: no  *)
(* earlier rewrite of the pass has moved, replaced or destroyed what       *)
(* either slot holds.                                                      *)
(***************************************************************************)
\* What the slots of the candidate of rewrite i of pass k held when the
\* traversal of the pass recorded them.
RecordedCall(k, i) ==
    NodeAt(BodyAt(k, history[k].rewrites[i].candidate.fElement),
           history[k].rewrites[i].candidate.fCandidateExpr)
RecordedStatement(k, i) ==
    NodeAt(BodyAt(k, history[k].rewrites[i].candidate.fElement),
           history[k].rewrites[i].candidate.fEnclosingStmt)
\* What the enclosing-statement slot holds when rewrite i of pass k begins.
StatementAtRewrite(k, i) ==
    NodeAt(history[k].rewrites[i].before[history[k].done[i].fElement].fBody,
           history[k].done[i].path)

C27_SlotsStayValid ==
    \A k \in Passes : \A i \in RewriteIndices(k) :
        /\ RecordedCall(k, i).k = "FunctionCall"
        /\ history[k].rewrites[i].call = RecordedCall(k, i)
        /\ StatementAtRewrite(k, i) = RecordedStatement(k, i)
        /\ \E q \in CallPaths(StatementAtRewrite(k, i)) :
              /\ history[k].done[i].path \o q
                    = SlotPath(history[k].rewrites[i].candidate.fCandidateExpr,
                               history[k].done[i].fElement,
                               SubSeq(history[k].done, 1, i - 1), 1)
              /\ NodeAt(StatementAtRewrite(k, i), q) = RecordedCall(k, i)

\* A pass has rewritten a candidate whose enclosing statement an earlier rewrite
\* of the pass had moved into a block.
C27_Witness ==
    \E k \in Passes : \E i \in RewriteIndices(k) :
        /\ i > 1
        /\ history[k].done[i].path # history[k].rewrites[i].candidate.fEnclosingStmt
        /\ \E j \in 1..(i - 1) :
              /\ history[k].done[j].fElement = history[k].done[i].fElement
              /\ IsProperPrefix(history[k].done[j].path,
                                history[k].rewrites[i].candidate.fEnclosingStmt)

(***************************************************************************)
(* C28.  After inlineCall no variable reference of the inlined body        *)
(* targets a parameter or a local variable of the callee: every parameter  *)
(* is mapped to the variable of the argument or to a fresh temporary,      *)
(* every cloned declaration introduces a fresh variable, and a remapped    *)
(* reference keeps the read/write role of the original.                    *)
(***************************************************************************)
DeclarationPathsOf(root) == {p \in PathsOf(root) : NodeAt(root, p).k = "VarDeclaration"}
LocalsOf(root) == {NodeAt(root, p).a.fVar : p \in DeclarationPathsOf(root)}
ParametersOf(function) == {function.fParameters[i].var : i \in 1..Len(function.fParameters)}
CalleeVariables(rw) == ParametersOf(rw.callee) \cup LocalsOf(rw.callee.fBody)

\* The variable was not there before the rewrite.
IsFresh(rw, v) == v.name \notin {r.name : r \in rw.symbolsBefore[v.table].owned}

\* A declaration keeps its place in the clone, so the clone of the local declared
\* at path p is declared at p.
ImageOf(rw, v) ==
    IF v \in ParametersOf(rw.callee) THEN rw.inlinedCall.varMap[v].var
    ELSE IF v \in LocalsOf(rw.callee.fBody)
    THEN NodeAt(ClonedBlock(rw),
                CHOOSE p \in DeclarationPathsOf(rw.callee.fBody) :
                    NodeAt(rw.callee.fBody, p).a.fVar = v).a.fVar
    ELSE v

\* The place in the clone of the expression at path p of the callee: the value of
\* a return has become the right side of an assignment, inside a block if the
\* callee returns early.
ClonePath(rw, p) ==
    IF \E i \in 1..Len(p) : ParentOf(rw.callee.fBody, p, i).k = "Return"
    THEN With(CHOOSE i \in 1..Len(p) : ParentOf(rw.callee.fBody, p, i).k = "Return", LAMBDA i :
              SubSeq(p, 1, i - 1)
              \o (IF has_early_return(rw.callee.fBody) THEN <<1, 1, 2>> ELSE <<1, 2>>)
              \o SubSeq(p, i + 1, Len(p)))
    ELSE p

C28_NoReferenceToCalleeVariables ==
    \A k \in Passes : \A rw \in RewritesOf(k) :
        /\ \A p \in ReferencePaths(rw.inlinedCall.fInlinedBody) :
              NodeAt(rw.inlinedCall.fInlinedBody, p).a.fVariable \notin CalleeVariables(rw)
        /\ \A i \in ArgumentIndices(rw) :
              \/ BoundDirectly(rw, i)
              \/ Materialized(rw, i) /\ IsFresh(rw, BoundTo(rw, i))
        /\ \A p \in DeclarationPathsOf(rw.callee.fBody) :
              /\ NodeAt(ClonedBlock(rw), p).k = "VarDeclaration"
              /\ IsFresh(rw, NodeAt(ClonedBlock(rw), p).a.fVar)
              /\ \A q \in DeclarationPathsOf(rw.callee.fBody) :
                    q # p => NodeAt(ClonedBlock(rw), q).a.fVar # NodeAt(ClonedBlock(rw), p).a.fVar
        /\ \A p \in ReferencePaths(rw.callee.fBody) :
              With(NodeAt(rw.callee.fBody, p), LAMBDA original :
              With(NodeAt(ClonedBlock(rw), ClonePath(rw, p)), LAMBDA clone :
                  /\ clone.k = "VariableReference"
                  /\ clone.a.fVariable = ImageOf(rw, original.a.fVariable)
                  /\ clone.a.fRefKind = original.a.fRefKind))

\* A pass has inlined a callee that declares a local and writes it and a parameter.
C28_Witness ==
    \E k \in Passes : \E rw \in RewritesOf(k) :
        /\ LocalsOf(rw.callee.fBody) # {}
        /\ \E p, q \in ReferencePaths(rw.callee.fBody) :
              /\ NodeAt(rw.callee.fBody, p).a.fVariable \in ParametersOf(rw.callee)
              /\ NodeAt(rw.callee.fBody, p).a.fRefKind = "write"
              /\ NodeAt(rw.callee.fBody, q).a.fVariable \in LocalsOf(rw.callee.fBody)
              /\ NodeAt(rw.callee.fBody, q).a.fRefKind = "write"

(***************************************************************************)
(* C29.  When a parameter that is not `out` is bound straight to the       *)
(* variable v of the argument, no statement of the inlined body writes v,  *)
(* also when v is a global variable that the callee body assigns.          *)
(***************************************************************************)
C29_PassThroughVariableNotWritten ==
    \A k \in Passes : \A rw \in RewritesOf(k) : \A i \in ArgumentIndices(rw) :
        ( /\ "out" \notin Parameter(rw, i).flags
          /\ BoundDirectly(rw, i) )
        => ~StatementWritesToVariable(rw.inlinedCall.fInlinedBody, BoundTo(rw, i))

(***************************************************************************)
(* C30.  Replacing a call inside a function leaves the three return counts *)
(* of that function as they were (all returns, returns at the end of       *)
(* control flow, returns inside breakable constructs), and at every        *)
(* inlineCall that analyze performs the call satisfies                     *)
(* isSafeToInline(call, INT_MAX) on the tree as it is at that moment.      *)
(***************************************************************************)
\* The three counts isSafeToInline and inlineCall take of a function body.
ReturnCounts(body) ==
    <<count_all_returns(body),
      count_returns_at_end_of_control_flow(body),
      count_returns_in_breakable_constructs(body)>>

\* The function the rewrite rw was made in, before and after it.
EnclosingBefore(rw) == rw.before[rw.candidate.fElement].fBody
EnclosingAfter(rw) == rw.after[rw.candidate.fElement].fBody

C30_ReturnCountsKept ==
    \A k \in Passes : \A rw \in RewritesOf(k) :
        /\ ReturnCounts(EnclosingAfter(rw)) = ReturnCounts(EnclosingBefore(rw))
        /\ isSafeToInline(rw.before, fSettings, rw.call, INT_MAX)

\* A call is replaced inside a function that has several returns, one of them
\* at the end of control flow, and a later rewrite of the pass inlines that function.
C30_Witness ==
    \E k \in Passes : \E i, j \in RewriteIndices(k) :
        /\ i < j
        /\ history[k].rewrites[j].call.a.fFunction
             = history[k].rewrites[i].before[history[k].rewrites[i].candidate.fElement].fName
        /\ ReturnCounts(EnclosingBefore(history[k].rewrites[i]))[1] > 1
        /\ ReturnCounts(EnclosingBefore(history[k].rewrites[i]))[2] >= 1

====
